---- MODULE Spec2Model ----
(***************************************************************************)
(* Memory & Retrieval subsystem of the agent harness:                      *)
(*   - ConversationMemory / PersistentMemory / MemoryManager               *)
(*     (src/core/memory.py)                                                *)
(*   - SimpleEmbedding / InMemoryVectorStore / RAGSystem                   *)
(*     (src/src/core/vector_store.py)                                      *)
(*                                                                         *)
(* Conventions.                                                            *)
(*   - A Python str is a sequence of one-character strings, so that len,   *)
(*     slicing, lower() and the regular-expression tokenizer are computed. *)
(*     The empty string is <<>>.                                           *)
(*   - importance is counted in tenths (0.8 is 8); a timestamp is the      *)
(*     reading of the clock variable now.                                  *)
(*   - hashlib.md5(s).hexdigest()[:12] is modelled as an injective hash:   *)
(*     the id is the tuple of the values the hashed string is built from.  *)
(*   - None is <<>> and a present value v is <<v>> where both can occur.   *)
(*   - A Python dict is the sequence of its <<key, value>> items in        *)
(*     insertion order.                                                    *)
(***************************************************************************)
EXTENDS Integers, Sequences, FiniteSets, TLC

(***************************************************************************)
(* Bounds of the model                                                     *)
(***************************************************************************)
\* largest max_entries a ConversationMemory is constructed with
MaxCap == 2
\* number of entries added to the conversation memory in one run
MaxAdds == 3
\* largest reading of the clock
MaxTime == 1
\* largest number of long-term entries
MaxLongTerm == 2
\* largest number of documents in the vector store
MaxDocs == 2
\* number of texts remembered before a search
MaxNotes == 2
\* largest number of documents in a vector store that is searched directly
MaxStored == 3

(***************************************************************************)
(* Generic helpers                                                         *)
(***************************************************************************)
Min(a, b) == IF a < b THEN a ELSE b

Max(a, b) == IF a > b THEN a ELSE b

Range(s) == {s[i] : i \in 1..Len(s)}

\* list.sort(key=...) / sorted(..., key=...): stable, ascending; keys[i] is
\* the key of s[i]
SortAscending(s, keys) ==
    LET n == Len(s)
        rank(i) == 1 + Cardinality({j \in 1..n :
                        \/ keys[j] < keys[i]
                        \/ keys[j] = keys[i] /\ j < i})
    IN  [p \in 1..n |-> s[CHOOSE i \in 1..n : rank(i) = p]]

\* sorted(..., key=..., reverse=True): stable, descending; keys[i] is the
\* key of s[i]
SortDescending(s, keys) ==
    LET n == Len(s)
        rank(i) == 1 + Cardinality({j \in 1..n :
                        \/ keys[j] > keys[i]
                        \/ keys[j] = keys[i] /\ j < i})
    IN  [p \in 1..n |-> s[CHOOSE i \in 1..n : rank(i) = p]]

\* s[-n:] of Python for n >= 0 (s[-0:] is s[0:], the whole list)
LastN(s, n) ==
    IF n = 0 \/ n >= Len(s) THEN s ELSE SubSeq(s, Len(s) - n + 1, Len(s))

\* s[:n] of Python (a negative n counts from the end)
FirstN(s, n) ==
    SubSeq(s, 1, IF n >= 0 THEN Min(n, Len(s)) ELSE Max(Len(s) + n, 0))

\* the k-th smallest element of a set of integers
Nth(S, k) == CHOOSE i \in S : Cardinality({j \in S : j < i}) = k - 1

\* list(f): the list with the elements f[1], ..., f[Len(f)]
List(f) == SubSeq(f, 1, Len(f))

\* [s[i] for i in sorted(keep)]
SelectIdx(s, keep) == [k \in 1..Cardinality(keep) |-> s[Nth(keep, k)]]

(***************************************************************************)
(* Characters                                                              *)
(***************************************************************************)
Alphabet ==
    <<"a", "b", "c", "d", "e", "f", "g", "h", "i", "j", "k", "l", "m",
      "n", "o", "p", "q", "r", "s", "t", "u", "v", "w", "x", "y", "z">>

UpperCase ==
    <<"A", "B", "C", "D", "E", "F", "G", "H", "I", "J", "K", "L", "M",
      "N", "O", "P", "Q", "R", "S", "T", "U", "V", "W", "X", "Y", "Z">>

Digits == {"0", "1", "2", "3", "4", "5", "6", "7", "8", "9"}

\* A character outside ASCII is written by its code point: "u7528" is the
\* one character U+7528.  These are the CJK ideographs (U+4E00..U+9FFF)
\* that occur in the texts and in the stop words of the program.
Ideographs ==
    {"u7528", "u6237", "u63D0", "u95EE", "u540E", "u52A9", "u624B", "u56DE",
     "u590D", "u5DE5", "u5177", "u8F93", "u5165", "u51FA",
     "u7684", "u4E86", "u662F", "u5728", "u6211", "u4F60", "u4ED6", "u5979",
     "u5B83"}

\* str.lower() on the upper-case letters
LowerMap ==
    [c \in Range(UpperCase) |->
        Alphabet[CHOOSE i \in 1..26 : UpperCase[i] = c]]

UpperCaseLetters == DOMAIN LowerMap

\* str.lower() on one character
LowerChar(c) == IF c \in UpperCaseLetters THEN LowerMap[c] ELSE c

\* str.lower()
Lower(text) == [i \in 1..Len(text) |-> LowerChar(text[i])]

\* the characters of the class [\w\u4e00-\u9fff]
WordChars ==
    Range(Alphabet) \cup Range(UpperCase) \cup Digits \cup {"_"}
    \cup Ideographs

IsWordChar(c) == c \in WordChars

\* re.findall(r'[\w\u4e00-\u9fff]+', text): the maximal runs of word
\* characters, left to right
FindAllWords(text) ==
    LET n == Len(text)
        starts == {i \in 1..n : /\ IsWordChar(text[i])
                                /\ (i = 1 \/ ~IsWordChar(text[i - 1]))}
        ends == {i \in 1..n : /\ IsWordChar(text[i])
                              /\ (i = n \/ ~IsWordChar(text[i + 1]))}
    IN  [k \in 1..Cardinality(starts) |->
            SubSeq(text, Nth(starts, k), Nth(ends, k))]

(***************************************************************************)
(* Keyword extractor (ConversationMemory._extract_keywords)                *)
(***************************************************************************)
stop_words ==
    { <<"u7684">>, <<"u4E86">>, <<"u662F">>, <<"u5728">>, <<"u6211">>,
      <<"u4F60">>, <<"u4ED6">>, <<"u5979">>, <<"u5B83">>,
      <<"t", "h", "e">>, <<"a">>, <<"a", "n">>, <<"a", "n", "d">>,
      <<"o", "r">>, <<"b", "u", "t">>, <<"i", "n">>, <<"o", "n">>,
      <<"a", "t">>, <<"t", "o">>, <<"f", "o", "r">>, <<"o", "f">>,
      <<"w", "i", "t", "h">>, <<"b", "y">>, <<"f", "r", "o", "m">>,
      <<"a", "s">>, <<"t", "h", "a", "t">>, <<"t", "h", "i", "s">>,
      <<"t", "h", "e", "s", "e">>, <<"t", "h", "o", "s", "e">>,
      <<"i", "t">>, <<"i", "t", "s">>, <<"b", "e">>,
      <<"h", "a", "v", "e">>, <<"h", "a", "s">>, <<"h", "a", "d">>,
      <<"d", "o">>, <<"d", "o", "e", "s">>, <<"d", "i", "d">>,
      <<"w", "i", "l", "l">>, <<"w", "o", "u", "l", "d">>,
      <<"c", "o", "u", "l", "d">> }

\* the keys of Counter(s), in first-encountered order
CounterKeys(s) ==
    SelectIdx(s, {i \in 1..Len(s) : \A j \in 1..(i - 1) : s[j] # s[i]})

\* Counter(s)[w]
CounterCount(s, w) == Cardinality({i \in 1..Len(s) : s[i] = w})

\* [word for word, _ in Counter(s).most_common(n)]: by decreasing count,
\* equal counts in first-encountered order
MostCommon(s, n) ==
    LET keys == CounterKeys(s)
        counts == [i \in 1..Len(keys) |-> CounterCount(s, keys[i])]
    IN  FirstN(SortDescending(keys, counts), n)

_extract_keywords(text, max_keywords) ==
    LET words == FindAllWords(Lower(text))
        keywords == SelectIdx(words,
                        {i \in 1..Len(words) :
                            words[i] \notin stop_words /\ Len(words[i]) >= 2})
    IN  MostCommon(keywords, max_keywords)

(***************************************************************************)
(* Natural numbers of any size, for the 53-bit significands of the floats. *)
(* A natural is the sequence of its digits in base 2^15, the least         *)
(* significant first, without leading zeros; 0 is <<>>.                    *)
(***************************************************************************)
LimbBits == 15

Base == 32768

\* 2^0 .. 2^15
PowersOfTwo ==
    <<1, 2, 4, 8, 16, 32, 64, 128, 256, 512, 1024, 2048, 4096, 8192, 16384,
      32768>>

\* 2^k for k in 0..15
Pow2(k) == PowersOfTwo[k + 1]

\* a without its leading zeros
NTrim(a) ==
    LET nonzero == {i \in 1..Len(a) : a[i] # 0}
    IN  IF nonzero = {} THEN <<>>
        ELSE SubSeq(a, 1, CHOOSE i \in nonzero : \A j \in nonzero : j <= i)

\* the natural n
RECURSIVE NatOf(_)
NatOf(n) == IF n = 0 THEN <<>> ELSE <<n % Base>> \o NatOf(n \div Base)

\* the digit of weight Base^(i - 1)
Limb(a, i) == IF i <= Len(a) THEN a[i] ELSE 0

RECURSIVE NAddFrom(_, _, _, _)
NAddFrom(a, b, i, carry) ==
    IF i > Len(a) /\ i > Len(b)
    THEN IF carry = 0 THEN <<>> ELSE <<carry>>
    ELSE LET t == Limb(a, i) + Limb(b, i) + carry
         IN  <<t % Base>> \o NAddFrom(a, b, i + 1, t \div Base)

\* a + b
NAdd(a, b) == NAddFrom(a, b, 1, 0)

RECURSIVE NSubFrom(_, _, _, _)
NSubFrom(a, b, i, borrow) ==
    IF i > Len(a) THEN <<>>
    ELSE LET t == Limb(a, i) - Limb(b, i) - borrow
         IN  IF t < 0 THEN <<t + Base>> \o NSubFrom(a, b, i + 1, 1)
             ELSE <<t>> \o NSubFrom(a, b, i + 1, 0)

\* a - b for a >= b
NSub(a, b) == NTrim(NSubFrom(a, b, 1, 0))

\* a < b
NLess(a, b) ==
    IF Len(a) # Len(b) THEN Len(a) < Len(b)
    ELSE LET differ == {i \in 1..Len(a) : a[i] # b[i]}
             top == CHOOSE i \in differ : \A j \in differ : j <= i
         IN  differ # {} /\ a[top] < b[top]

RECURSIVE NMulSmallFrom(_, _, _, _)
NMulSmallFrom(a, k, i, carry) ==
    IF i > Len(a) THEN IF carry = 0 THEN <<>> ELSE <<carry>>
    ELSE LET t == a[i] * k + carry
         IN  <<t % Base>> \o NMulSmallFrom(a, k, i + 1, t \div Base)

\* a * k for 0 <= k <= Base
NMulSmall(a, k) == IF k = 0 THEN <<>> ELSE NMulSmallFrom(a, k, 1, 0)

\* a * b
RECURSIVE NMul(_, _)
NMul(a, b) ==
    IF a = <<>> \/ b = <<>> THEN <<>>
    ELSE NAdd(NMulSmall(b, a[1]),
              LET rest == NMul(Tail(a), b)
              IN  IF rest = <<>> THEN <<>> ELSE <<0>> \o rest)

\* a * 2^k
NShl(a, k) ==
    IF a = <<>> THEN <<>>
    ELSE [i \in 1..(k \div LimbBits) |-> 0]
         \o NMulSmall(a, Pow2(k % LimbBits))

\* a \div 2^k
NShr(a, k) ==
    LET q == k \div LimbBits
        r == k % LimbBits
    IN  NTrim([i \in 1..(Len(a) - q) |->
                  (Limb(a, i + q) \div Pow2(r))
                  + (Limb(a, i + q + 1) % Pow2(r)) * Pow2(LimbBits - r)])

\* the number of binary digits of a
NBitLen(a) ==
    IF a = <<>> THEN 0
    ELSE LimbBits * (Len(a) - 1)
         + (CHOOSE k \in 1..LimbBits :
                Pow2(k - 1) <= a[Len(a)] /\ a[Len(a)] < Pow2(k))

\* the binary digit of weight 2^i
NBit(a, i) ==
    (Limb(a, (i \div LimbBits) + 1) \div Pow2(i % LimbBits)) % 2

\* the k lowest binary digits of a are 0
NLowZero(a, k) == NShl(NShr(a, k), k) = a

\* the number of 0 digits below the lowest 1 digit of a # 0
NTrailingZeros(a) ==
    LET limb == CHOOSE i \in 1..Len(a) :
                    a[i] # 0 /\ \A j \in 1..(i - 1) : a[j] = 0
    IN  LimbBits * (limb - 1)
        + (CHOOSE k \in 0..(LimbBits - 1) :
               a[limb] % Pow2(k + 1) # 0 /\ a[limb] % Pow2(k) = 0)

\* the long division of r * 2^n by b for r < b, continuing the quotient q:
\* the quotient and the remainder after n more binary digits.  The digits
\* are produced half of them at a time; once the remainder is 0 the digits
\* left are all 0.
RECURSIVE NDivBits(_, _, _, _)
NDivBits(q, r, b, n) ==
    IF n = 0 THEN <<q, r>>
    ELSE IF n = 1
    THEN IF NLess(NShl(r, 1), b) THEN <<NShl(q, 1), NShl(r, 1)>>
         ELSE <<NAdd(NShl(q, 1), <<1>>), NSub(NShl(r, 1), b)>>
    ELSE LET first == NDivBits(q, r, b, n \div 2)
         IN  IF first[2] = <<>>
             THEN <<NShl(first[1], n - (n \div 2)), <<>>>>
             ELSE NDivBits(first[1], first[2], b, n - (n \div 2))

\* the square root by binary digits: s with the digits of weight
\* 2^(hi - 1) down to 2^lo set where that keeps the square within a.  The
\* digits are produced half of them at a time; once the square is a the
\* digits left are all 0.
RECURSIVE NSqrtBits(_, _, _, _)
NSqrtBits(s, a, hi, lo) ==
    IF hi = lo THEN s
    ELSE IF hi = lo + 1
    THEN IF NLess(a, NMul(NAdd(s, NShl(<<1>>, lo)), NAdd(s, NShl(<<1>>, lo))))
         THEN s
         ELSE NAdd(s, NShl(<<1>>, lo))
    ELSE LET first == NSqrtBits(s, a, hi, (hi + lo) \div 2)
         IN  IF NMul(first, first) = a THEN first
             ELSE NSqrtBits(first, a, (hi + lo) \div 2, lo)

\* the integer part of the square root of a
NSqrt(a) == NSqrtBits(<<>>, a, (NBitLen(a) + 1) \div 2, 0)

(***************************************************************************)
(* Floating-point numbers: the doubles of IEEE 754.                        *)
(* A finite float is either                                                *)
(*   <<n, d>>     the number n / d, in lowest terms, d a power of two,     *)
(*                for |n| < 2^14 and d <= 2^14, or                         *)
(*   <<s, m, e>>  the number s * m * 2^e with s in {1, -1} and m an odd    *)
(*                natural of at most 53 binary digits, for the others.     *)
(* The float NaN is <<0, 0>>.  Every operation returns the float nearest   *)
(* to the exact result, ties to the even significand, as the hardware      *)
(* does; NaN absorbs every operation and every comparison with NaN is      *)
(* False.  Infinities, the sign of zero and the subnormal range are left   *)
(* out: the numbers of the model stay far from them.                       *)
(***************************************************************************)
NaN == <<0, 0>>

IsNaN(x) == x = NaN

Abs(n) == IF n < 0 THEN -n ELSE n

RECURSIVE GCD(_, _)
GCD(a, b) == IF b = 0 THEN a ELSE GCD(b, a % b)

\* the fraction n / d in lowest terms with a positive denominator, d # 0
Rat(n, d) ==
    IF d = 1 THEN <<n, 1>>
    ELSE LET g == GCD(Abs(n), Abs(d))
             s == IF d < 0 THEN -1 ELSE 1
         IN  <<(s * n) \div g, (s * d) \div g>>

\* float(n) for a small integer n
Float(n) == <<n, 1>>

SmallLimit == 16384

\* the denominators of the floats written <<n, d>>
SmallDenominators ==
    {1, 2, 4, 8, 16, 32, 64, 128, 256, 512, 1024, 2048, 4096, 8192, 16384}

\* x is written <<n, d>>
IsSmall(x) == Len(x) = 2

\* the fraction <<n, d>> is a float written <<n, d>>
FitsSmall(r) ==
    /\ r[1] < SmallLimit
    /\ -r[1] < SmallLimit
    /\ r[2] \in SmallDenominators

\* the sign, the significand and the exponent of a finite float
Exact(x) ==
    IF IsSmall(x)
    THEN <<IF x[1] < 0 THEN -1 ELSE 1, NatOf(Abs(x[1])),
           -(CHOOSE k \in 0..14 : x[2] = Pow2(k))>>
    ELSE x

\* the float s * m * 2^e, for m of at most 53 binary digits
Canonical(s, m, e) ==
    IF m = <<>> THEN <<0, 1>>
    ELSE LET tz == NTrailingZeros(m)
             odd == NShr(m, tz)
             exp == e + tz
         IN  IF Len(odd) = 1 /\ odd[1] < SmallLimit /\ exp <= 0
                /\ exp >= -14
             THEN <<s * odd[1], Pow2(-exp)>>
             ELSE IF Len(odd) = 1 /\ exp > 0 /\ NBitLen(odd) + exp <= 14
             THEN <<s * odd[1] * Pow2(exp), 1>>
             ELSE <<s, odd, exp>>

\* the float nearest to s * (m + f) * 2^e, ties to even, where 0 <= f < 1
\* and inexact says that f > 0; m has at least 55 binary digits when
\* inexact
Round53(s, m, e, inexact) ==
    LET drop == NBitLen(m) - 53
        kept == NShr(m, drop)
        half == NBit(m, drop - 1) = 1
        below == inexact \/ ~NLowZero(m, drop - 1)
        up == half /\ (below \/ NBit(kept, 0) = 1)
    IN  IF drop <= 0 THEN Canonical(s, m, e)
        ELSE Canonical(s, IF up THEN NAdd(kept, <<1>>) ELSE kept, e + drop)

\* x + y on finite floats
AddFinite(x, y) ==
    LET X == Exact(x)
        Y == Exact(y)
        e == IF X[3] < Y[3] THEN X[3] ELSE Y[3]
        mx == NShl(X[2], X[3] - e)
        my == NShl(Y[2], Y[3] - e)
    IN  IF X[1] = Y[1] THEN Round53(X[1], NAdd(mx, my), e, FALSE)
        ELSE IF NLess(mx, my) THEN Round53(Y[1], NSub(my, mx), e, FALSE)
        ELSE Round53(X[1], NSub(mx, my), e, FALSE)

\* x * y on finite floats
MulFinite(x, y) ==
    LET X == Exact(x)
        Y == Exact(y)
    IN  Round53(X[1] * Y[1], NMul(X[2], Y[2]), X[3] + Y[3], FALSE)

\* x / y on finite floats, y # 0
DivFinite(x, y) ==
    LET X == Exact(x)
        Y == Exact(y)
        lx == NBitLen(X[2])
        ly == NBitLen(Y[2])
        u == IF ly > lx THEN ly - lx ELSE 0
        t == (IF lx > ly THEN lx - ly ELSE 0) + 1
        qr == NDivBits(<<>>, NShl(X[2], u), NShl(Y[2], t), 56)
    IN  Round53(X[1] * Y[1], qr[1], X[3] - Y[3] - u + t - 56,
                qr[2] # <<>>)

\* the square root of a finite float x > 0
SqrtFinite(x) ==
    LET X == Exact(x)
        k0 == IF NBitLen(X[2]) < 110 THEN 110 - NBitLen(X[2]) ELSE 0
        k == IF (X[3] - k0) % 2 = 0 THEN k0 ELSE k0 + 1
        a == NShl(X[2], k)
        root == NSqrt(a)
    IN  Round53(1, root, (X[3] - k) \div 2, NMul(root, root) # a)

\* x < y on finite floats
LessFinite(x, y) ==
    LET X == Exact(x)
        Y == Exact(y)
        e == IF X[3] < Y[3] THEN X[3] ELSE Y[3]
        mx == NShl(X[2], X[3] - e)
        my == NShl(Y[2], Y[3] - e)
    IN  IF mx = <<>> /\ my = <<>> THEN FALSE
        ELSE IF X[1] # Y[1] /\ mx # <<>> /\ my # <<>> THEN X[1] < Y[1]
        ELSE IF mx = <<>> THEN Y[1] = 1
        ELSE IF my = <<>> THEN X[1] = -1
        ELSE IF X[1] = 1 THEN NLess(mx, my) ELSE NLess(my, mx)

\* x + y
FAdd(x, y) ==
    IF IsNaN(x) \/ IsNaN(y) THEN NaN
    ELSE IF IsSmall(x) /\ IsSmall(y)
    THEN LET r == Rat(x[1] * y[2] + y[1] * x[2], x[2] * y[2])
         IN  IF FitsSmall(r) THEN r ELSE AddFinite(x, y)
    ELSE AddFinite(x, y)

\* x * y
FMul(x, y) ==
    IF IsNaN(x) \/ IsNaN(y) THEN NaN
    ELSE IF IsSmall(x) /\ IsSmall(y)
    THEN LET r == Rat(x[1] * y[1], x[2] * y[2])
         IN  IF FitsSmall(r) THEN r ELSE MulFinite(x, y)
    ELSE MulFinite(x, y)

\* x / y for y # 0
FDiv(x, y) ==
    IF IsNaN(x) \/ IsNaN(y) THEN NaN
    ELSE IF IsSmall(x) /\ IsSmall(y)
    THEN LET r == Rat(x[1] * y[2], x[2] * y[1])
         IN  IF FitsSmall(r) THEN r ELSE DivFinite(x, y)
    ELSE DivFinite(x, y)

\* x < y
FLess(x, y) ==
    /\ ~IsNaN(x)
    /\ ~IsNaN(y)
    /\ IF IsSmall(x) /\ IsSmall(y) THEN x[1] * y[2] < y[1] * x[2]
       ELSE LessFinite(x, y)

\* x == y
FEq(x, y) == ~IsNaN(x) /\ ~IsNaN(y) /\ x = y

\* the integer square root of n < 2^14, if n is a perfect square
HasISqrt(n) == \E r \in 0..128 : r * r = n

ISqrt(n) == CHOOSE r \in 0..128 : r * r = n

\* x ** 0.5 for x >= 0
FSqrt(x) ==
    IF IsNaN(x) THEN NaN
    ELSE IF IsSmall(x) /\ HasISqrt(x[1]) /\ HasISqrt(x[2])
    THEN Rat(ISqrt(x[1]), ISqrt(x[2]))
    ELSE SqrtFinite(x)

\* the sum of the first n elements of s: the additions from left to
\* right, starting from 0
RECURSIVE FSumTo(_, _)
FSumTo(s, n) == IF n = 0 THEN Float(0) ELSE FAdd(FSumTo(s, n - 1), s[n])

\* sum(s)
FSum(s) == FSumTo(s, Len(s))

\* max(a, b) of Python: b if b > a, else a
PyMax(a, b) == IF FLess(a, b) THEN b ELSE a

\* min(a, b) of Python: b if b < a, else a
PyMin(a, b) == IF FLess(b, a) THEN b ELSE a

\* max(s) of Python over a non-empty sequence
RECURSIVE PyMaxOf(_)
PyMaxOf(s) ==
    IF Len(s) = 1 THEN s[1]
    ELSE PyMax(PyMaxOf(SubSeq(s, 1, Len(s) - 1)), s[Len(s)])

\* str(n) for an integer n >= 0
RECURSIVE str_int(_)
str_int(n) ==
    LET digit == <<"0", "1", "2", "3", "4", "5", "6", "7", "8", "9">>
    IN  IF n < 10 THEN <<digit[n + 1]>>
        ELSE str_int(n \div 10) \o <<digit[(n % 10) + 1]>>

\* the characters str.strip() removes
Whitespace == {" ", "\n", "\t", "\r"}

\* str.strip()
Strip(text) ==
    LET inner == {i \in 1..Len(text) : text[i] \notin Whitespace}
    IN  IF inner = {} THEN <<>>
        ELSE SubSeq(text, Nth(inner, 1), Nth(inner, Cardinality(inner)))

\* the orders of 1..n
Orders(n) ==
    {p \in [1..n -> 1..n] : \A i, j \in 1..n : i # j => p[i] # p[j]}

\* scores.sort(key=lambda x: x[1], reverse=True): the orders the sort can
\* leave the (index, score) pairs in.  The sort is stable and descending.
\* It compares with <, and every comparison with NaN is False: with a NaN
\* among the scores the order left depends on which comparisons the sort
\* happens to make, and every order is taken as possible.
SortedByScore(scores) ==
    LET n == Len(scores)
        rank(i) == 1 + Cardinality({j \in 1..n :
                        \/ FLess(scores[i][2], scores[j][2])
                        \/ scores[j][2] = scores[i][2] /\ j < i})
    IN  IF \E i \in 1..n : IsNaN(scores[i][2])
        THEN {List([p \in 1..n |-> scores[order[p]]]) : order \in Orders(n)}
        ELSE {List([p \in 1..n |->
                       scores[CHOOSE i \in 1..n : rank(i) = p]])}

(***************************************************************************)
(* MemoryEntry                                                             *)
(***************************************************************************)
MemoryEntry(id, timestamp, type, content, metadata, importance) ==
    [id |-> id, timestamp |-> timestamp, type |-> type, content |-> content,
     metadata |-> metadata, importance |-> importance]

\* d[key] for a dict d that has the key
DictGet(d, key) == d[CHOOSE i \in 1..Len(d) : d[i][1] = key][2]

DictHas(d, key) == \E i \in 1..Len(d) : d[i][1] = key

\* MemoryEntry.to_dict: dataclasses.asdict, the fields in declaration order
MemoryEntry_to_dict(e) ==
    << <<"id", e.id>>, <<"timestamp", e.timestamp>>, <<"type", e.type>>,
       <<"content", e.content>>, <<"metadata", e.metadata>>,
       <<"importance", e.importance>> >>

\* MemoryEntry.from_dict: cls(**data)
MemoryEntry_from_dict(data) ==
    MemoryEntry(DictGet(data, "id"), DictGet(data, "timestamp"),
                DictGet(data, "type"), DictGet(data, "content"),
                DictGet(data, "metadata"), DictGet(data, "importance"))

(***************************************************************************)
(* ConversationMemory                                                      *)
(***************************************************************************)
\* ConversationMemory(max_entries) constructed when the clock reads t
ConversationMemory_init(max_entries, t) ==
    [max_entries |-> max_entries, entries |-> <<>>, session_start |-> t,
     semantic_index |-> <<>>]

\* the semantic index is a function from the keywords it has as keys to
\* sets of ids; the index without keys is <<>>
_update_semantic_index(semantic_index, entry) ==
    LET keywords == Range(_extract_keywords(entry.content, 10))
        old(k) == IF k \in DOMAIN semantic_index
                  THEN semantic_index[k] ELSE {}
    IN  IF keywords = {} THEN semantic_index
        ELSE [k \in (DOMAIN semantic_index) \cup keywords |->
                IF k \in keywords THEN old(k) \cup {entry.id} ELSE old(k)]

\* metadata or {}
OrEmptyDict(metadata) ==
    IF metadata = <<>> THEN <<>> ELSE metadata[1]

\* the sort keys of entries.sort(key=lambda x: x.importance)
Importances(s) == [i \in 1..Len(s) |-> s[i].importance]

\* add with a sort that is not stable: entries of equal importance come
\* out of the sort in the reverse of the order they had
ConversationMemory_add_unstable(cm, t, content, mem_type, metadata, importance) ==
    LET mem_id == <<"md5", t, content, Len(cm.entries)>>
        entry == MemoryEntry(mem_id, t, mem_type, content,
                             OrEmptyDict(metadata), importance)
        index == _update_semantic_index(cm.semantic_index, entry)
        appended == Append(cm.entries, entry)
        reversed == [i \in 1..Len(appended) |->
                        appended[Len(appended) + 1 - i]]
        kept == IF Len(appended) > cm.max_entries
                THEN LastN(SortAscending(reversed, Importances(reversed)),
                           cm.max_entries)
                ELSE appended
    IN  [cm |-> [cm EXCEPT !.entries = kept, !.semantic_index = index],
         ret |-> mem_id, entry |-> entry]

\* ConversationMemory.add, t being what time.time() returns.
\* The result is the memory after the call, the returned id and the entry
\* the call created.
ConversationMemory_add(cm, t, content, mem_type, metadata, importance) ==
    LET mem_id == <<"md5", t, content, Len(cm.entries)>>
        entry == MemoryEntry(mem_id, t, mem_type, content,
                             OrEmptyDict(metadata), importance)
        index == _update_semantic_index(cm.semantic_index, entry)
        appended == Append(cm.entries, entry)
        kept == IF Len(appended) > cm.max_entries
                THEN LastN(SortAscending(appended, Importances(appended)),
                           cm.max_entries)
                ELSE appended
    IN  [cm |-> [cm EXCEPT !.entries = kept, !.semantic_index = index],
         ret |-> mem_id, entry |-> entry]

ConversationMemory_add_user_input(cm, t, user_input) ==
    ConversationMemory_add(cm, t, user_input, "user", <<>>, 8)

ConversationMemory_add_assistant_response(cm, t, response) ==
    ConversationMemory_add(cm, t, response, "assistant", <<>>, 7)

ConversationMemory_add_tool_execution(cm, t, tool_name, input_data, output) ==
    LET content == <<"u5DE5", "u5177", ":", " ">> \o tool_name
                   \o <<"\n", "u8F93", "u5165", ":", " ">> \o input_data
                   \o <<"\n", "u8F93", "u51FA", ":", " ">> \o output
        metadata == << <<"tool", tool_name>>, <<"input", input_data>>,
                       <<"output_preview",
                         IF Len(output) > 100 THEN FirstN(output, 100)
                         ELSE output>> >>
    IN  ConversationMemory_add(cm, t, content, "tool", <<metadata>>, 6)

ConversationMemory_add_summary(cm, t, summary) ==
    ConversationMemory_add(cm, t, summary, "summary", <<>>, 9)

\* clear that empties the semantic index together with the entries
ConversationMemory_clear_purging(cm) ==
    [cm EXCEPT !.entries = <<>>, !.semantic_index = <<>>]

\* ConversationMemory.clear
ConversationMemory_clear(cm) == [cm EXCEPT !.entries = <<>>]

\* ConversationMemory.get_recent(n), n >= 0
ConversationMemory_get_recent(cm, n) ==
    IF n < Len(cm.entries) THEN LastN(cm.entries, n) ELSE cm.entries

\* ConversationMemory._get_entry_by_id: the first entry with the id, or
\* None
_get_entry_by_id(cm, mem_id) ==
    LET found == {i \in 1..Len(cm.entries) : cm.entries[i].id = mem_id}
    IN  IF found = {} THEN <<>> ELSE <<cm.entries[Nth(found, 1)]>>

\* the orders a set of ids can be iterated in
Iterations(ids) ==
    {order \in [1..Cardinality(ids) -> ids] :
        \A i, j \in 1..Cardinality(ids) : i # j => order[i] # order[j]}

\* sum(s) of integers
RECURSIVE SumInts(_)
SumInts(s) == IF s = <<>> THEN 0 ELSE s[1] + SumInts(Tail(s))

\* semantic_search that scores every matched id by the weights of the
\* query keywords it is indexed under, whether an entry has the id or not
ConversationMemory_semantic_search_by_index(cm, query, limit) ==
    LET query_keywords == _extract_keywords(query, 5)
        indexed == {k \in Range(query_keywords) :
                       k \in DOMAIN cm.semantic_index}
        matched_ids == UNION {cm.semantic_index[k] : k \in indexed}
        final_score(mem_id) ==
            Float(SumInts([i \in 1..Len(query_keywords) |->
                             IF /\ query_keywords[i] \in indexed
                                /\ mem_id \in
                                       cm.semantic_index[query_keywords[i]]
                             THEN Len(query_keywords[i]) + 1 ELSE 0]))
        results(order) ==
            LET pairs == List([i \in 1..Len(order) |->
                                 <<IF _get_entry_by_id(cm, order[i]) = <<>>
                                   THEN <<>>
                                   ELSE _get_entry_by_id(cm, order[i])[1],
                                   final_score(order[i])>>])
                sorted_results == CHOOSE sorted \in SortedByScore(pairs) : TRUE
            IN  FirstN(sorted_results, limit)
    IN  IF query_keywords = <<>> THEN {<<>>}
        ELSE {results(order) : order \in Iterations(matched_ids)}

\* ConversationMemory.semantic_search(query, limit), limit >= 0: the lists
\* of (entry, score) pairs the call can return.  matched_ids is a set of
\* strings, which Python iterates in an order that changes from run to
\* run; the stable sort leaves pairs of equal score in that order.
ConversationMemory_semantic_search(cm, query, limit) ==
    LET query_keywords == _extract_keywords(query, 5)
        indexed == {k \in Range(query_keywords) :
                       k \in DOMAIN cm.semantic_index}
        matched_ids == UNION {cm.semantic_index[k] : k \in indexed}
        keyword_scores(kw) == IF kw \in indexed THEN Len(kw) + 1 ELSE 0
        found == {mem_id \in matched_ids : _get_entry_by_id(cm, mem_id) # <<>>}
        final_score(mem_id) ==
            LET entry == _get_entry_by_id(cm, mem_id)[1]
                entry_keywords == _extract_keywords(entry.content, 20)
                weights == [i \in 1..Len(entry_keywords) |->
                               IF entry_keywords[i] \in Range(query_keywords)
                               THEN keyword_scores(entry_keywords[i])
                               ELSE 0]
            IN  FMul(Float(SumInts(weights)),
                     FDiv(Float(entry.importance), Float(10)))
        results(order) ==
            LET pairs == List([i \in 1..Len(order) |->
                                 <<_get_entry_by_id(cm, order[i])[1],
                                   final_score(order[i])>>])
                sorted_results == CHOOSE sorted \in SortedByScore(pairs) : TRUE
                filtered_results ==
                    SelectIdx(sorted_results,
                              {i \in 1..Len(sorted_results) :
                                  FLess(Float(0), sorted_results[i][2])})
            IN  FirstN(filtered_results, limit)
    IN  IF query_keywords = <<>> THEN {<<>>}
        ELSE {results(order) : order \in Iterations(found)}

\* ConversationMemory.get_stats, t being what time.time() returns;
\* avg_importance is the pair <<sum, count>> standing for sum / count
ConversationMemory_get_stats(cm, t) ==
    LET types == [i \in 1..Len(cm.entries) |-> cm.entries[i].type]
        keys == CounterKeys(types)
        RECURSIVE Sum(_)
        Sum(i) == IF i = 0 THEN 0 ELSE cm.entries[i].importance + Sum(i - 1)
    IN  << <<"total_entries", Len(cm.entries)>>,
           <<"session_duration", t - cm.session_start>>,
           <<"type_counts",
             [i \in 1..Len(keys) |-> <<keys[i], CounterCount(types, keys[i])>>]>>,
           <<"avg_importance",
             IF cm.entries # <<>>
             THEN <<Sum(Len(cm.entries)), Len(cm.entries)>> ELSE <<0, 1>>>> >>

(***************************************************************************)
(* JSON files.  The text json.dump writes is the tree of its values, each  *)
(* tagged with its JSON type; json.load reads the tree back into Python    *)
(* values (object -> dict, array -> list, string -> str, number -> float). *)
(***************************************************************************)
JStr(s) == <<"string", s>>

JNum(x) == <<"number", x>>

JArr(items) == <<"array", items>>

JObj(members) == <<"object", members>>

\* json.dump of the metadata dict of an entry (str keys, str values)
json_dump_metadata(metadata) ==
    JObj([i \in 1..Len(metadata) |->
            <<metadata[i][1], JStr(metadata[i][2])>>])

\* json.dump of the dict MemoryEntry.to_dict returns: the encoder writes
\* each value by its Python type (str, float, dict)
json_dump_entry(d) ==
    JObj([i \in 1..Len(d) |->
            <<d[i][1],
              CASE d[i][1] \in {"id", "type", "content"} -> JStr(d[i][2])
                [] d[i][1] \in {"timestamp", "importance"} -> JNum(d[i][2])
                [] d[i][1] = "metadata" -> json_dump_metadata(d[i][2])>>])

\* json.dump of the dict ConversationMemory.get_stats returns
json_dump_stats(stats) ==
    JObj([i \in 1..Len(stats) |->
            <<stats[i][1],
              IF stats[i][1] = "type_counts"
              THEN JObj([k \in 1..Len(stats[i][2]) |->
                          <<stats[i][2][k][1], JNum(stats[i][2][k][2])>>])
              ELSE JNum(stats[i][2])>>])

\* json.load
RECURSIVE json_load(_)
json_load(j) ==
    CASE j[1] = "object" ->
           [i \in 1..Len(j[2]) |-> <<j[2][i][1], json_load(j[2][i][2])>>]
      [] j[1] = "array" ->
           [i \in 1..Len(j[2]) |-> json_load(j[2][i])]
      [] OTHER -> j[2]

(***************************************************************************)
(* PersistentMemory.  A file is <<>> when it does not exist and <<text>>   *)
(* when it does; session_files maps every session id to its file.          *)
(***************************************************************************)
\* PersistentMemory._load_long_term
_load_long_term(long_term_file) ==
    IF long_term_file # <<>>
    THEN LET data == json_load(long_term_file[1])
         IN  [i \in 1..Len(data) |-> MemoryEntry_from_dict(data[i])]
    ELSE <<>>

\* _save_long_term leaving the newest entry out of the file
_save_long_term_without_last(pm) ==
    LET data == [i \in 1..(Len(pm.long_term_entries) - 1) |->
                    MemoryEntry_to_dict(pm.long_term_entries[i])]
    IN  <<JArr([i \in 1..Len(data) |-> json_dump_entry(data[i])])>>

\* PersistentMemory._save_long_term: the new contents of the file
_save_long_term(pm) ==
    LET data == [i \in 1..Len(pm.long_term_entries) |->
                    MemoryEntry_to_dict(pm.long_term_entries[i])]
    IN  <<JArr([i \in 1..Len(data) |-> json_dump_entry(data[i])])>>

\* PersistentMemory(storage_dir) on a directory holding long_term_file
PersistentMemory_init(long_term_file) ==
    [long_term_entries |-> _load_long_term(long_term_file)]

\* store_important with the threshold of the promotion one tenth lower
PersistentMemory_store_important_low(pm, long_term_file, t, content, importance) ==
    IF importance < 7
    THEN [pm |-> pm, long_term_file |-> long_term_file, ret |-> <<>>]
    ELSE LET mem_id == <<"md5", t, content>>
             entry == MemoryEntry(mem_id, t, "persistent", content, <<>>,
                                  importance)
             stored == [pm EXCEPT !.long_term_entries = Append(@, entry)]
         IN  [pm |-> stored, long_term_file |-> _save_long_term(stored),
              ret |-> mem_id]

\* store_important reading the long-term file again before it appends
PersistentMemory_store_important_merging(pm, long_term_file, t, content, importance) ==
    IF importance < 8
    THEN [pm |-> pm, long_term_file |-> long_term_file, ret |-> <<>>]
    ELSE LET mem_id == <<"md5", t, content>>
             entry == MemoryEntry(mem_id, t, "persistent", content, <<>>,
                                  importance)
             stored == [pm EXCEPT !.long_term_entries =
                           Append(_load_long_term(long_term_file), entry)]
         IN  [pm |-> stored, long_term_file |-> _save_long_term(stored),
              ret |-> mem_id]

\* PersistentMemory.store_important, t being what time.time() returns.
\* The result is the memory and the long-term file after the call and the
\* returned id ("" is <<>>).
PersistentMemory_store_important(pm, long_term_file, t, content, importance) ==
    IF importance < 8
    THEN [pm |-> pm, long_term_file |-> long_term_file, ret |-> <<>>]
    ELSE LET mem_id == <<"md5", t, content>>
             entry == MemoryEntry(mem_id, t, "persistent", content, <<>>,
                                  importance)
             stored == [pm EXCEPT !.long_term_entries = Append(@, entry)]
         IN  [pm |-> stored, long_term_file |-> _save_long_term(stored),
              ret |-> mem_id]

\* sub in text, for two strings
Contains(text, sub) ==
    \E i \in 0..(Len(text) - Len(sub)) :
        SubSeq(text, i + 1, i + Len(sub)) = sub

\* ConversationMemory.search(query)
ConversationMemory_search(cm, query) ==
    SelectIdx(cm.entries,
              {i \in 1..Len(cm.entries) :
                  Contains(Lower(cm.entries[i].content), Lower(query))})

\* PersistentMemory.search_long_term(query, limit)
PersistentMemory_search_long_term(pm, query, limit) ==
    LET entries == pm.long_term_entries
        matches == SelectIdx(entries,
                       {i \in 1..Len(entries) :
                           Contains(Lower(entries[i].content), Lower(query))})
    IN  FirstN(SortDescending(matches, Importances(matches)), limit)

\* PersistentMemory.save_session, t being what time.time() returns:
\* the session files after the call
PersistentMemory_save_session(session_files, t, session_id, conversation_memory) ==
    LET entries == conversation_memory.entries
        stats == ConversationMemory_get_stats(conversation_memory, t)
        data == JObj(<< <<"session_id", JStr(session_id)>>,
                        <<"timestamp", JNum(t)>>,
                        <<"entries",
                          JArr([i \in 1..Len(entries) |->
                                 json_dump_entry(MemoryEntry_to_dict(entries[i]))])>>,
                        <<"stats", json_dump_stats(stats)>> >>)
    IN  [session_files EXCEPT ![session_id] = <<data>>]

\* load_session reading a key the session file does not have
PersistentMemory_load_session_wrong_key(session_files, session_id) ==
    IF session_files[session_id] = <<>>
    THEN <<>>
    ELSE LET data == json_load(session_files[session_id][1])
             items == IF DictHas(data, "entry")
                      THEN DictGet(data, "entry") ELSE <<>>
         IN  <<[i \in 1..Len(items) |-> MemoryEntry_from_dict(items[i])]>>

\* PersistentMemory.load_session: None (<<>>) or <<the list of entries>>
PersistentMemory_load_session(session_files, session_id) ==
    IF session_files[session_id] = <<>>
    THEN <<>>
    ELSE LET data == json_load(session_files[session_id][1])
             items == IF DictHas(data, "entries")
                      THEN DictGet(data, "entries") ELSE <<>>
         IN  <<[i \in 1..Len(items) |-> MemoryEntry_from_dict(items[i])]>>

\* the index after each of the entries has gone through
\* _update_semantic_index
RECURSIVE IndexAll(_, _)
IndexAll(semantic_index, entries) ==
    IF entries = <<>> THEN semantic_index
    ELSE IndexAll(_update_semantic_index(semantic_index, Head(entries)),
                  Tail(entries))

\* _load_session running the historical entries through the keyword
\* extractor
MemoryManager__load_session_indexing(conversation_memory, session_files, session_id) ==
    LET historical == PersistentMemory_load_session(session_files, session_id)
    IN  IF historical # <<>> /\ historical[1] # <<>>
        THEN [conversation_memory EXCEPT
                !.entries = @ \o historical[1],
                !.semantic_index = IndexAll(@, historical[1])]
        ELSE conversation_memory

\* _load_session putting the historical entries in the reverse of their
\* saved order
MemoryManager__load_session_reversed(conversation_memory, session_files, session_id) ==
    LET historical == PersistentMemory_load_session(session_files, session_id)
    IN  IF historical # <<>> /\ historical[1] # <<>>
        THEN [conversation_memory EXCEPT
                !.entries = @ \o [i \in 1..Len(historical[1]) |->
                                    historical[1][Len(historical[1]) + 1 - i]]]
        ELSE conversation_memory

(***************************************************************************)
(* MemoryManager.  Its state is its session_id, its conversation_memory    *)
(* and its persistent_memory; the methods below return the parts a call    *)
(* changes and the value it returns.                                       *)
(***************************************************************************)
\* MemoryManager._load_session: the conversation memory after the call
MemoryManager__load_session(conversation_memory, session_files, session_id) ==
    LET historical == PersistentMemory_load_session(session_files, session_id)
    IN  IF historical # <<>> /\ historical[1] # <<>>
        THEN [conversation_memory EXCEPT !.entries = @ \o historical[1]]
        ELSE conversation_memory

\* MemoryManager(session_id, max_conversation_entries) for a session id
\* the caller supplies, constructed when the clock reads t
MemoryManager_init(session_id, max_conversation_entries, t, long_term_file, session_files) ==
    [session_id |-> session_id,
     conversation_memory |->
        MemoryManager__load_session(
            ConversationMemory_init(max_conversation_entries, t),
            session_files, session_id),
     persistent_memory |-> PersistentMemory_init(long_term_file)]

MemoryManager_add_user_input(cm, t, user_input) ==
    ConversationMemory_add_user_input(cm, t, user_input)

\* MemoryManager.add_assistant_response: the conversation memory, the
\* persistent memory and the long-term file after the call, and the
\* returned id
MemoryManager_add_assistant_response(cm, pm, long_term_file, t, response) ==
    LET appended == ConversationMemory_add_assistant_response(cm, t, response)
        text == <<"u7528", "u6237", "u63D0", "u95EE", "u540E", "uFF0C",
                  "u52A9", "u624B", "u56DE", "u590D", ":", " ">>
                \o FirstN(response, 200) \o <<".", ".", ".">>
        stored == IF Len(response) > 50
                  THEN PersistentMemory_store_important(pm, long_term_file,
                                                        t, text, 7)
                  ELSE [pm |-> pm, long_term_file |-> long_term_file]
    IN  [cm |-> appended.cm, pm |-> stored.pm,
         long_term_file |-> stored.long_term_file, ret |-> appended.ret,
         entry |-> appended.entry]

MemoryManager_add_tool_execution(cm, t, tool_name, input_data, output) ==
    ConversationMemory_add_tool_execution(cm, t, tool_name, input_data, output)

\* MemoryManager.add_summary
MemoryManager_add_summary(cm, pm, long_term_file, t, summary) ==
    LET appended == ConversationMemory_add_summary(cm, t, summary)
        stored == PersistentMemory_store_important(pm, long_term_file, t,
                                                   summary, 9)
    IN  [cm |-> appended.cm, pm |-> stored.pm,
         long_term_file |-> stored.long_term_file, ret |-> appended.ret,
         entry |-> appended.entry]

\* the first pair of each id, in the order of pairs
FirstOfEachId(pairs) ==
    SelectIdx(pairs, {i \in 1..Len(pairs) :
                         \A j \in 1..(i - 1) : pairs[j][1].id # pairs[i][1].id})

\* semantic_search_memory giving a long-term match its importance as
\* score, not five times its importance
MemoryManager_semantic_search_memory_unscaled(cm, pm, query, limit) ==
    LET long_term_matches == PersistentMemory_search_long_term(pm, query, limit)
        merged(conversation_results) ==
            LET added == [i \in 1..Len(long_term_matches) |->
                             <<long_term_matches[i],
                               FDiv(Float(long_term_matches[i].importance),
                                    Float(10))>>]
                combined_results ==
                    FirstOfEachId(conversation_results \o added)
                all_results == CHOOSE sorted \in
                                   SortedByScore(combined_results) : TRUE
            IN  FirstN(all_results, limit)
    IN  {merged(conversation_results) :
            conversation_results \in
                ConversationMemory_semantic_search(cm, query, limit)}

\* MemoryManager.semantic_search_memory(query, limit), limit >= 0: the
\* lists the call can return, one for each list semantic_search can
\* return.  combined_results is a dict keyed by id: the first pair of an
\* id stays.
MemoryManager_semantic_search_memory(cm, pm, query, limit) ==
    LET long_term_matches == PersistentMemory_search_long_term(pm, query, limit)
        merged(conversation_results) ==
            LET added == [i \in 1..Len(long_term_matches) |->
                             <<long_term_matches[i],
                               FMul(FDiv(Float(long_term_matches[i].importance),
                                         Float(10)),
                                    Float(5))>>]
                combined_results ==
                    FirstOfEachId(conversation_results \o added)
                all_results == CHOOSE sorted \in
                                   SortedByScore(combined_results) : TRUE
            IN  FirstN(all_results, limit)
    IN  {merged(conversation_results) :
            conversation_results \in
                ConversationMemory_semantic_search(cm, query, limit)}

\* MemoryManager.save_session
MemoryManager_save_session(session_files, t, session_id, cm) ==
    PersistentMemory_save_session(session_files, t, session_id, cm)

(***************************************************************************)
(* Document (src/src/core/data_loaders.py) and the documents a store can   *)
(* hold: a Document object, or a plain str (which has neither a content    *)
(* nor a metadata attribute)                                               *)
(***************************************************************************)
Unknown == <<"u", "n", "k", "n", "o", "w", "n">>

\* Document(content, metadata, source, doc_type); an argument left out is
\* None
Document(content, metadata, source, doc_type) ==
    [class |-> "Document",
     content |-> content,
     metadata |-> IF metadata = <<>> THEN <<>> ELSE metadata[1],
     source |-> IF source = <<>> \/ source = << <<>> >>
                THEN Unknown ELSE source[1],
     doc_type |-> IF doc_type = <<>> \/ doc_type = << <<>> >>
                  THEN <<"t", "e", "x", "t">> ELSE doc_type[1]]

\* a plain string handed to the store as a document
PlainString(text) == [class |-> "str", value |-> text]

\* Document.to_dict: a dict of the four fields, in this order.  A dict has
\* no content and no metadata attribute, and str() of it is left
\* uninterpreted
Document_to_dict(doc) ==
    [class |-> "dict",
     items |-> << <<"content", doc.content>>, <<"metadata", doc.metadata>>,
                  <<"source", doc.source>>, <<"doc_type", doc.doc_type>> >>]

\* hasattr(doc, 'to_dict')
HasToDict(doc) == doc.class = "Document"

\* hasattr(doc, 'content'), hasattr(doc, 'metadata')
HasDocumentAttributes(doc) == doc.class = "Document"

\* doc.content if hasattr(doc, 'content') else str(doc)
DocumentText(doc) ==
    IF HasDocumentAttributes(doc) THEN doc.content
    ELSE IF doc.class = "dict" THEN <<"str", doc.items>>
    ELSE doc.value

\* doc.metadata if hasattr(doc, 'metadata') else {}
DocumentMetadata(doc) ==
    IF HasDocumentAttributes(doc) THEN doc.metadata ELSE <<>>

(***************************************************************************)
(* SimpleEmbedding                                                         *)
(***************************************************************************)
\* SimpleEmbedding.embed: one component per letter a..z, 1.0 when the
\* letter occurs in text.lower()
SimpleEmbedding_embed(text) ==
    LET lowered == Range(Lower(text))
    IN  List([i \in 1..26 |->
                 IF Alphabet[i] \in lowered THEN Float(1) ELSE Float(0)])

\* EmbeddingFunction.embed_batch
SimpleEmbedding_embed_batch(texts) ==
    [i \in 1..Len(texts) |-> SimpleEmbedding_embed(texts[i])]

(***************************************************************************)
(* TFIDFEmbedding.  Its state is its vocabulary (a dict from tokens to     *)
(* indices), its doc_count and its document_frequencies (a defaultdict of  *)
(* int: reading a missing key inserts it with 0).                          *)
(***************************************************************************)
\* TFIDFEmbedding(vocabulary); vocabulary is None (<<>>) or a dict
TFIDFEmbedding_init(vocabulary) ==
    [vocabulary |-> IF vocabulary = <<>> THEN <<>> ELSE vocabulary[1],
     doc_count |-> 0,
     document_frequencies |-> <<>>]

\* TFIDFEmbedding._tokenize
_tokenize(text) == FindAllWords(Lower(text))

\* math.log(x): ValueError for x <= 0, 0.0 for 1.0; the logarithm of
\* another number is left as the term <<"log", x>>
math_log(x) ==
    IF ~FLess(Float(0), x) THEN [raised |-> <<"ValueError">>, value |-> NaN]
    ELSE IF x = Float(1) THEN [raised |-> <<>>, value |-> Float(0)]
    ELSE [raised |-> <<>>, value |-> <<"log", x>>]

\* tf * idf, idf being a number or a term
TimesLog(tf, idf) ==
    IF idf[1] = "log" THEN <<"mul", tf, idf>> ELSE FMul(tf, idf)

\* the loop of embed over the keys of token_counts from the i-th on:
\* the embedding function, the vector and the exception at the end
RECURSIVE EmbedLoop(_, _, _, _, _)
EmbedLoop(e, tokens, keys, i, vector) ==
    IF i > Len(keys) THEN [tfidf |-> e, ret |-> vector, raised |-> <<>>]
    ELSE IF ~DictHas(e.vocabulary, keys[i])
    THEN EmbedLoop(e, tokens, keys, i + 1, vector)
    ELSE
    LET token == keys[i]
        tf == FDiv(Float(CounterCount(tokens, token)), Float(Len(tokens)))
        read == IF DictHas(e.document_frequencies, token)
                THEN e
                ELSE [e EXCEPT !.document_frequencies =
                                   Append(@, <<token, 0>>)]
        df == DictGet(read.document_frequencies, token)
        idf == math_log(FDiv(Float(e.doc_count), Float(df + 1)))
        index == DictGet(e.vocabulary, token)
    IN  IF idf.raised # <<>>
        THEN [tfidf |-> read, ret |-> <<>>, raised |-> idf.raised]
        ELSE IF index >= Len(vector)
        THEN [tfidf |-> read, ret |-> <<>>, raised |-> <<"IndexError">>]
        ELSE EmbedLoop(read, tokens, keys, i + 1,
                       [vector EXCEPT ![index + 1] = TimesLog(tf, idf.value)])

\* TFIDFEmbedding.embed(text): the embedding function after the call, the
\* vector returned and the exception raised
TFIDFEmbedding_embed(e, text) ==
    LET tokens == _tokenize(text)
    IN  EmbedLoop(e, tokens, CounterKeys(tokens), 1,
                  [i \in 1..Len(e.vocabulary) |-> Float(0)])

(***************************************************************************)
(* InMemoryVectorStore                                                     *)
(***************************************************************************)
\* InMemoryVectorStore(dimension=dimension), with the default embedding
\* function SimpleEmbedding()
InMemoryVectorStore_init(dimension) ==
    [dimension |-> dimension, documents |-> <<>>, embeddings |-> <<>>,
     metadatas |-> <<>>, ids |-> <<>>]

\* the embeddings add works on: those supplied, else those it computes
BatchEmbeddings(documents, embeddings) ==
    IF embeddings = <<>>
    THEN SimpleEmbedding_embed_batch(
             [i \in 1..Len(documents) |-> DocumentText(documents[i])])
    ELSE embeddings[1]

\* add with the dimension checked inside the appending loop: the pairs
\* before the first mismatch are stored before the ValueError is raised
InMemoryVectorStore_add_checked_late(vs, documents, embeddings) ==
    LET embs == BatchEmbeddings(documents, embeddings)
        bad == {i \in 1..Len(embs) : Len(embs[i]) # vs.dimension}
        start_id == Len(vs.documents)
        zipped == Min(Len(documents), Len(embs))
        n == IF bad = {} THEN zipped ELSE Min(zipped, Nth(bad, 1) - 1)
    IN  [vs |-> [vs EXCEPT
                   !.documents = @ \o SubSeq(documents, 1, n),
                   !.embeddings = @ \o SubSeq(embs, 1, n),
                   !.metadatas = @ \o [i \in 1..n |->
                                          DocumentMetadata(documents[i])],
                   !.ids = @ \o [i \in 1..n |-> start_id + (i - 1)]],
         raised |-> IF bad = {} THEN <<>> ELSE <<"ValueError">>]

\* InMemoryVectorStore.add(documents, embeddings); embeddings is None
\* (<<>>) or the supplied list (<<list>>).  Every embedding is checked
\* before anything is appended; zip pairs the documents with the
\* embeddings up to the shorter of the two lists.
InMemoryVectorStore_add(vs, documents, embeddings) ==
    LET embs == BatchEmbeddings(documents, embeddings)
        start_id == Len(vs.documents)
        n == Min(Len(documents), Len(embs))
    IN  IF \E i \in 1..Len(embs) : Len(embs[i]) # vs.dimension
        THEN [vs |-> vs, raised |-> <<"ValueError">>]
        ELSE [vs |-> [vs EXCEPT
                        !.documents = @ \o SubSeq(documents, 1, n),
                        !.embeddings = @ \o SubSeq(embs, 1, n),
                        !.metadatas = @ \o [i \in 1..n |->
                                          DocumentMetadata(documents[i])],
                        !.ids = @ \o [i \in 1..n |-> start_id + (i - 1)]],
              raised |-> <<>>]

\* delete that compacts documents, embeddings and ids but leaves
\* metadatas as it was
InMemoryVectorStore_delete_metadatas_kept(vs, ids) ==
    LET keep_indices == {i \in 1..Len(vs.ids) : vs.ids[i] \notin Range(ids)}
    IN  [vs EXCEPT !.documents = SelectIdx(vs.documents, keep_indices),
                   !.embeddings = SelectIdx(vs.embeddings, keep_indices),
                   !.ids = SelectIdx(vs.ids, keep_indices)]

\* delete that takes the ids for positions in the store
InMemoryVectorStore_delete_by_position(vs, ids) ==
    LET keep_indices == {i \in 1..Len(vs.ids) : (i - 1) \notin Range(ids)}
    IN  [vs EXCEPT !.documents = SelectIdx(vs.documents, keep_indices),
                   !.embeddings = SelectIdx(vs.embeddings, keep_indices),
                   !.metadatas = SelectIdx(vs.metadatas, keep_indices),
                   !.ids = SelectIdx(vs.ids, keep_indices)]

\* InMemoryVectorStore.delete(ids)
InMemoryVectorStore_delete(vs, ids) ==
    LET keep_indices == {i \in 1..Len(vs.ids) : vs.ids[i] \notin Range(ids)}
    IN  [vs EXCEPT !.documents = SelectIdx(vs.documents, keep_indices),
                   !.embeddings = SelectIdx(vs.embeddings, keep_indices),
                   !.metadatas = SelectIdx(vs.metadatas, keep_indices),
                   !.ids = SelectIdx(vs.ids, keep_indices)]

\* pickle.dump and pickle.load: the file holds the object graph, and
\* loading it builds new objects of the same types and values
pickle_dump(data) == <<"pickle", data>>

pickle_load(file) == file[2]

\* InMemoryVectorStore.save(path) without the conversion of the documents
InMemoryVectorStore_save_objects(vs) ==
    pickle_dump([documents |-> vs.documents,
                 embeddings |-> vs.embeddings,
                 metadatas |-> vs.metadatas,
                 ids |-> vs.ids,
                 dimension |-> vs.dimension])

\* InMemoryVectorStore.save(path): what the file at path holds afterwards
InMemoryVectorStore_save(vs) ==
    pickle_dump([documents |->
                     [i \in 1..Len(vs.documents) |->
                         IF HasToDict(vs.documents[i])
                         THEN Document_to_dict(vs.documents[i])
                         ELSE vs.documents[i]],
                 embeddings |-> vs.embeddings,
                 metadatas |-> vs.metadatas,
                 ids |-> vs.ids,
                 dimension |-> vs.dimension])

\* InMemoryVectorStore.load(path): file is None when nothing is at path
InMemoryVectorStore_load(vs, file) ==
    IF file = <<>>
    THEN [vs |-> vs, raised |-> <<"FileNotFoundError">>]
    ELSE LET data == pickle_load(file[1])
         IN  [vs |-> [documents |-> data.documents,
                      embeddings |-> data.embeddings,
                      metadatas |-> data.metadatas,
                      ids |-> data.ids,
                      dimension |-> IF "dimension" \in DOMAIN data
                                    THEN data.dimension ELSE 26],
              raised |-> <<>>]

\* InMemoryVectorStore.get_stats
InMemoryVectorStore_get_stats(vs) ==
    [document_count |-> Len(vs.documents),
     dimension |-> vs.dimension,
     total_characters |->
         SumInts([i \in 1..Len(vs.documents) |->
                 IF HasDocumentAttributes(vs.documents[i])
                 THEN Len(vs.documents[i].content) ELSE 0])]

\* InMemoryVectorStore._match_filter
_match_filter(metadata, filter) ==
    \A i \in 1..Len(filter) :
        /\ DictHas(metadata, filter[i][1])
        /\ DictGet(metadata, filter[i][1]) = filter[i][2]

\* InMemoryVectorStore._cosine_similarity: zip stops at the shorter
\* vector, the norms run over the whole of each vector
_cosine_similarity(a, b) ==
    LET n == Min(Len(a), Len(b))
        dot_product == FSum(List([i \in 1..n |-> FMul(a[i], b[i])]))
        norm_a == FSqrt(FSum(List([i \in 1..Len(a) |-> FMul(a[i], a[i])])))
        norm_b == FSqrt(FSum(List([i \in 1..Len(b) |-> FMul(b[i], b[i])])))
    IN  IF FEq(norm_a, Float(0)) \/ FEq(norm_b, Float(0)) THEN Float(0)
        ELSE FDiv(dot_product, FMul(norm_a, norm_b))

\* SearchResult(document, score, metadata, source)
SearchResult(document, score, metadata, source) ==
    [document |-> document, score |-> score, metadata |-> metadata,
     source |-> source]

\* SearchResult.to_dict
SearchResult_to_dict(result) ==
    [content |-> DocumentText(result.document), score |-> result.score,
     metadata |-> result.metadata, source |-> result.source]

\* similarity_search with a relevance threshold: only the entries whose
\* score is above 0 are returned
similarity_search_above_zero(vs, query, k, filter) ==
    IF vs.documents = <<>> THEN {<<>>}
    ELSE
    LET query_embedding == SimpleEmbedding_embed(query)
        filtering == filter # <<>> /\ filter # << <<>> >>
        kept == {i \in 1..Len(vs.embeddings) :
                    /\ ~(filtering
                          /\ ~_match_filter(vs.metadatas[i], filter[1]))
                    /\ FLess(Float(0),
                             _cosine_similarity(query_embedding,
                                                vs.embeddings[i]))}
        scores == List([p \in 1..Cardinality(kept) |->
                          <<Nth(kept, p),
                            _cosine_similarity(
                                query_embedding,
                                vs.embeddings[Nth(kept, p)])>>])
        result(pair) ==
            SearchResult(vs.documents[pair[1]], pair[2],
                         vs.metadatas[pair[1]],
                         IF DictHas(vs.metadatas[pair[1]], "source")
                         THEN DictGet(vs.metadatas[pair[1]], "source")
                         ELSE Unknown)
    IN  {List([p \in 1..Len(FirstN(sorted, k)) |-> result(sorted[p])]) :
            sorted \in SortedByScore(scores)}

\* InMemoryVectorStore.similarity_search(query, k, filter): the result
\* lists the call can return (one, unless a score is NaN).  filter is None
\* (<<>>) or a dict (<<dict>>); an empty dict filters nothing.
similarity_search(vs, query, k, filter) ==
    IF vs.documents = <<>> THEN {<<>>}
    ELSE
    LET query_embedding == SimpleEmbedding_embed(query)
        filtering == filter # <<>> /\ filter # << <<>> >>
        kept == {i \in 1..Len(vs.embeddings) :
                    ~(filtering /\ ~_match_filter(vs.metadatas[i], filter[1]))}
        scores == List([p \in 1..Cardinality(kept) |->
                          <<Nth(kept, p),
                            _cosine_similarity(
                                query_embedding,
                                vs.embeddings[Nth(kept, p)])>>])
        result(pair) ==
            SearchResult(vs.documents[pair[1]], pair[2],
                         vs.metadatas[pair[1]],
                         IF DictHas(vs.metadatas[pair[1]], "source")
                         THEN DictGet(vs.metadatas[pair[1]], "source")
                         ELSE Unknown)
    IN  {List([p \in 1..Len(FirstN(sorted, k)) |-> result(sorted[p])]) :
            sorted \in SortedByScore(scores)}

(***************************************************************************)
(* RAGSystem                                                               *)
(***************************************************************************)
NoInformationAnswer ==
    <<"u62B1", "u6B49", "uFF0C", "u6CA1", "u6709", "u627E", "u5230",
      "u76F8", "u5173", "u4FE1", "u606F">>

\* the head of one part of the context, before the number of the document
ContextPartHead ==
    <<"u6587", "u6863", " ">>

\* the prompt handed to the generation capability, up to the context
PromptHead ==
    <<"u4F60", "u662F", "u4E00", "u4E2A", "u4E13", "u4E1A", "u7684",
      "u6587", "u6863", "u603B", "u7ED3", "u52A9", "u624B", "u3002",
      "u8BF7", "u57FA", "u4E8E", "u63D0", "u4F9B", "u7684", "u4E0A",
      "u4E0B", "u6587", "u4FE1", "u606F", "u56DE", "u7B54", "u95EE",
      "u9898", "u3002", "\n", "\n", "u91CD", "u8981", "u8BF4", "u660E",
      "uFF1A", "\n", "1", ".", " ", "u53EA", "u4F7F", "u7528", "u4E0A",
      "u4E0B", "u6587", "u4FE1", "u606F", "u4E2D", "u7684", "u5185",
      "u5BB9", "u56DE", "u7B54", "u95EE", "u9898", "\n", "2", ".", " ",
      "u5982", "u679C", "u4E0A", "u4E0B", "u6587", "u4FE1", "u606F",
      "u4E2D", "u6CA1", "u6709", "u76F8", "u5173", "u5185", "u5BB9",
      "uFF0C", "u76F4", "u63A5", "u8BF4", "u660E", "\"", "u4E0A", "u4E0B",
      "u6587", "u4FE1", "u606F", "u4E2D", "u6CA1", "u6709", "u76F8",
      "u5173", "u5185", "u5BB9", "\"", "\n", "3", ".", " ", "u4E0D",
      "u8981", "u6DFB", "u52A0", "u4E0A", "u4E0B", "u6587", "u4FE1",
      "u606F", "u4E2D", "u6CA1", "u6709", "u7684", "u5185", "u5BB9", "\n",
      "\n", "u4E0A", "u4E0B", "u6587", "u4FE1", "u606F", "uFF1A", "\n">>

\* the prompt between the context and the question
PromptQuestion ==
    <<"\n", "\n", "u95EE", "u9898", "uFF1A">>

\* the prompt after the question
PromptTail ==
    <<"\n", "\n", "u56DE", "u7B54", "uFF1A">>

\* the templated answer, up to the number of documents
AnswerHead ==
    <<"\n", "u57FA", "u4E8E", "u4EE5", "u4E0B", " ">>

\* the templated answer between the number of documents and the excerpt
AnswerCount ==
    <<" ", "u4E2A", "u76F8", "u5173", "u6587", "u6863", "u7247", "u6BB5",
      "u7684", "u56DE", "u7B54", "uFF1A", "\n", "\n">>

\* the end of the templated answer when no generation capability is
\* configured
AnswerDemoTail ==
    <<".", ".", ".", "\n", "\n", "u6CE8", "u610F", "uFF1A", "u8FD9",
      "u662F", "u6F14", "u793A", "u7248", "u672C", "uFF0C", "u5B9E",
      "u9645", "u5E94", "u7528", "u4E2D", "u5E94", "u8C03", "u7528", " ",
      "L", "L", "M", " ", "u751F", "u6210", "u7B54", "u6848", "u3002", "\n">>

\* the end of the templated answer when the generation capability
\* raised, up to the message of the exception
AnswerFailedTail ==
    <<".", ".", ".", "\n", "\n", "u6CE8", "u610F", "uFF1A", "L", "L", "M",
      " ", "u8C03", "u7528", "u5931", "u8D25", "uFF0C", "u4F7F", "u7528",
      "u6F14", "u793A", "u7248", "u672C", "u3002", "\n", "u9519", "u8BEF",
      "u4FE1", "u606F", "uFF1A">>

\* "\n\n".join(parts)
RECURSIVE Join(_)
Join(parts) ==
    IF parts = <<>> THEN <<>>
    ELSE IF Len(parts) = 1 THEN parts[1]
    ELSE Join(SubSeq(parts, 1, Len(parts) - 1))
         \o <<"\n", "\n">> \o parts[Len(parts)]

\* the context of a query: one part per retrieved document, numbered from
\* 1, with its source and its text
Context(relevant_docs) ==
    Join(List([i \in 1..Len(relevant_docs) |->
                  ContextPartHead \o str_int(i) \o <<" ", "[">>
                  \o relevant_docs[i].source \o <<"]", ":", "\n">>
                  \o DocumentText(relevant_docs[i].document)]))

\* repr(text) of a str: in single quotes, or in double quotes when the
\* text holds a single quote and no double quote; the backslash, the
\* quote in use and the control characters are escaped
PyRepr(text) ==
    LET quote == IF "'" \in Range(text) /\ "\"" \notin Range(text)
                 THEN "\"" ELSE "'"
        escaped(c) == IF c = "\n" THEN <<"\\", "n">>
                      ELSE IF c = "\t" THEN <<"\\", "t">>
                      ELSE IF c = "\r" THEN <<"\\", "r">>
                      ELSE IF c = "\\" \/ c = quote THEN <<"\\", c>>
                      ELSE <<c>>
        RECURSIVE body(_)
        body(n) == IF n = 0 THEN <<>> ELSE body(n - 1) \o escaped(text[n])
    IN  <<quote>> \o body(Len(text)) \o <<quote>>

\* str(d) of a dict of str keys and str values
RECURSIVE DictItemsStr(_)
DictItemsStr(d) ==
    IF d = <<>> THEN <<>>
    ELSE LET last == d[Len(d)]
             item == PyRepr(last[1]) \o <<":", " ">> \o PyRepr(last[2])
         IN  IF Len(d) = 1 THEN item
             ELSE DictItemsStr(SubSeq(d, 1, Len(d) - 1)) \o <<",", " ">>
                  \o item

DictStr(d) == <<"{">> \o DictItemsStr(d) \o <<"}">>

\* the key 'content'
ContentKey == <<"c", "o", "n", "t", "e", "n", "t">>

\* what llm.invoke does: it raises an exception with a message (raises is
\* <<message>>) or it returns a response.  Of a response, attribute is
\* its content attribute (<<>> when hasattr(response, 'content') is
\* False), mapping is the dict it is (<<>> when it is not a dict) and
\* string is str(response).
LLMResponse(raises, attribute, mapping, string) ==
    [raises |-> raises, attribute |-> attribute, mapping |-> mapping,
     string |-> string]

\* invoke raises Exception(message)
Raising(message) == LLMResponse(<<message>>, <<>>, <<>>, <<>>)

\* invoke returns an object with a content attribute and the given str()
ObjectResponse(content, string) ==
    LLMResponse(<<>>, <<content>>, <<>>, string)

\* invoke returns a dict
DictResponse(d) == LLMResponse(<<>>, <<>>, <<d>>, DictStr(d))

\* invoke returns an instance of a dict subclass that has a content
\* attribute
DictObjectResponse(content, d) ==
    LLMResponse(<<>>, <<content>>, <<d>>, DictStr(d))

\* invoke returns a str
StrResponse(text) == LLMResponse(<<>>, <<>>, <<>>, text)

\* the templated answer
TemplatedAnswer(context, relevant_docs, tail) ==
    AnswerHead \o str_int(Len(relevant_docs)) \o AnswerCount
    \o FirstN(context, 500) \o tail

\* _generate_answer looking for the 'content' key before the content
\* attribute
_generate_answer_key_first(llm, question, context, relevant_docs, response) ==
    LET prompt == PromptHead \o context \o PromptQuestion \o question
                  \o PromptTail
    IN  IF llm # <<>>
        THEN IF response.raises # <<>>
             THEN [answer |-> TemplatedAnswer(
                                  context, relevant_docs,
                                  AnswerFailedTail \o response.raises[1]
                                  \o <<"\n">>),
                   invoked |-> <<prompt>>]
             ELSE LET answer ==
                          IF response.mapping # <<>>
                             /\ DictHas(response.mapping[1], ContentKey)
                          THEN DictGet(response.mapping[1], ContentKey)
                          ELSE IF response.attribute # <<>>
                          THEN response.attribute[1]
                          ELSE response.string
                  IN  [answer |-> Strip(answer), invoked |-> <<prompt>>]
        ELSE [answer |-> TemplatedAnswer(context, relevant_docs,
                                         AnswerDemoTail),
              invoked |-> <<>>]

\* RAGSystem._generate_answer; llm is None (<<>>) or configured, response
\* is what llm.invoke does when it is called.  The result is the answer
\* and the prompts llm.invoke was called with.
_generate_answer(llm, question, context, relevant_docs, response) ==
    LET prompt == PromptHead \o context \o PromptQuestion \o question
                  \o PromptTail
    IN  IF llm # <<>>
        THEN IF response.raises # <<>>
             THEN [answer |-> TemplatedAnswer(
                                  context, relevant_docs,
                                  AnswerFailedTail \o response.raises[1]
                                  \o <<"\n">>),
                   invoked |-> <<prompt>>]
             ELSE LET answer ==
                          IF response.attribute # <<>>
                          THEN response.attribute[1]
                          ELSE IF response.mapping # <<>>
                                  /\ DictHas(response.mapping[1], ContentKey)
                          THEN DictGet(response.mapping[1], ContentKey)
                          ELSE response.string
                  IN  [answer |-> Strip(answer), invoked |-> <<prompt>>]
        ELSE [answer |-> TemplatedAnswer(context, relevant_docs,
                                         AnswerDemoTail),
              invoked |-> <<>>]

\* RAGSystem._calculate_confidence
_calculate_confidence(relevant_docs) ==
    IF relevant_docs = <<>> THEN Float(0)
    ELSE
    LET scores == List([i \in 1..Len(relevant_docs) |->
                          relevant_docs[i].score])
        max_score == PyMaxOf(scores)
        avg_score == FDiv(FSum(scores), Float(Len(relevant_docs)))
        confidence == FDiv(FAdd(max_score, avg_score), Float(2))
    IN  PyMin(PyMax(confidence, Float(0)), Float(1))

\* the result dict of RAGSystem.query
QueryResult(question, answer, context, relevant_documents, confidence) ==
    [question |-> question, answer |-> answer, context |-> context,
     relevant_documents |-> relevant_documents, confidence |-> confidence]

\* query without the return on an empty retrieval
RAGSystem_query_no_soft_miss(vs, llm, question, k, filter, response) ==
    {LET context == Context(relevant_docs)
         generated == _generate_answer(llm, question, context,
                                       relevant_docs, response)
     IN  [ret |-> QueryResult(
                      question, generated.answer, context,
                      [i \in 1..Len(relevant_docs) |->
                          SearchResult_to_dict(relevant_docs[i])],
                      _calculate_confidence(relevant_docs)),
          invoked |-> generated.invoked] :
     relevant_docs \in similarity_search(vs, question, k, filter)}

\* RAGSystem.query(question, k, filter): the results the call can return,
\* each with the prompts llm.invoke was called with
RAGSystem_query(vs, llm, question, k, filter, response) ==
    {IF relevant_docs = <<>>
     THEN [ret |-> QueryResult(question, NoInformationAnswer, <<>>, <<>>,
                               Float(0)),
           invoked |-> <<>>]
     ELSE
     LET context == Context(relevant_docs)
         generated == _generate_answer(llm, question, context,
                                       relevant_docs, response)
     IN  [ret |-> QueryResult(
                      question, generated.answer, context,
                      [i \in 1..Len(relevant_docs) |->
                          SearchResult_to_dict(relevant_docs[i])],
                      _calculate_confidence(relevant_docs)),
          invoked |-> generated.invoked] :
     relevant_docs \in similarity_search(vs, question, k, filter)}

(***************************************************************************)
(* MemoryReActAgent.  A value of an action input is a JSON string or a     *)
(* JSON object; the action inputs of the model are objects.  A response of *)
(* the language model is given by the sections the regular expressions of  *)
(* _parse_response find in it: thought, final (the text after "Final       *)
(* Answer:", of one character or more), action and input, each None when   *)
(* the response has no such section.  The scratchpad only goes into the    *)
(* prompt, and the prompt is not modelled.                                 *)
(***************************************************************************)
JsonString(text) == [str |-> text]

JsonObject(items) == [dict |-> items]

\* isinstance(v, dict)
IsDict(v) == "dict" \in DOMAIN v

\* bool(v)
Truthy(v) == IF IsDict(v) THEN v.dict # <<>> ELSE v.str # <<>>

\* the escapes of json.dumps in a string without control characters
RECURSIVE JsonEscape(_)
JsonEscape(text) ==
    IF text = <<>> THEN <<>>
    ELSE (IF Head(text) \in {"\"", "\\"} THEN <<"\\", Head(text)>>
          ELSE <<Head(text)>>)
         \o JsonEscape(Tail(text))

\* json.dumps(v, ensure_ascii=False)
RECURSIVE json_dumps(_)
json_dumps(v) ==
    IF ~IsDict(v) THEN <<"\"">> \o JsonEscape(v.str) \o <<"\"">>
    ELSE LET RECURSIVE body(_)
             body(n) ==
                 IF n = 0 THEN <<>>
                 ELSE (IF n = 1 THEN <<>> ELSE body(n - 1) \o <<",", " ">>)
                      \o <<"\"">> \o JsonEscape(v.dict[n][1])
                      \o <<"\"", ":", " ">> \o json_dumps(v.dict[n][2])
         IN  <<"{">> \o body(Len(v.dict)) \o <<"}">>

InputKey == <<"i", "n", "p", "u", "t">>

\* the action inputs a response can hold: {"x": "1"}, {"x": "2"}, {} and
\* {"input": "{\"x\": \"2\"}"}
InputOne == JsonObject(<< <<<<"x">>, JsonString(<<"1">>)>> >>)

InputTwo == JsonObject(<< <<<<"x">>, JsonString(<<"2">>)>> >>)

InputEmpty == JsonObject(<<>>)

InputWrapped ==
    JsonObject(<< <<InputKey, JsonString(json_dumps(InputTwo))>> >>)

JsonValues == {InputOne, InputTwo, InputEmpty, InputWrapped}

\* json.loads(text): the value the text stands for, None for a text that
\* raises JSONDecodeError; the JSON texts of the model are those
\* json.dumps writes for JsonValues
json_loads(text) ==
    IF \E v \in JsonValues : json_dumps(v) = text
    THEN <<CHOOSE v \in JsonValues : json_dumps(v) = text>>
    ELSE <<>>

\* a response of the language model
AgentResponse(thought, final, action, input) ==
    [thought |-> thought, final |-> final, action |-> action,
     input |-> input]

\* MemoryReActAgent._parse_response
_parse_response(response) ==
    LET thought == IF response.thought = <<>> THEN <<>>
                   ELSE Strip(response.thought[1])
    IN  IF response.final # <<>>
        THEN [thought |-> thought, action |-> <<>>, action_input |-> <<>>,
              final_answer |-> <<Strip(response.final[1])>>]
        ELSE
        LET action == IF response.action = <<>> THEN <<>>
                      ELSE <<Strip(response.action[1])>>
            input_str == Strip(response.input[1])
            loaded == json_loads(input_str)
            nested == json_loads(loaded[1].dict[1][2].str)
            action_input ==
                IF response.input = <<>> THEN <<>>
                ELSE IF loaded = <<>>
                THEN <<JsonObject(<< <<InputKey, JsonString(input_str)>> >>)>>
                ELSE IF /\ IsDict(loaded[1])
                        /\ Len(loaded[1].dict) = 1
                        /\ loaded[1].dict[1][1] = InputKey
                THEN IF IsDict(loaded[1].dict[1][2]) THEN loaded
                     ELSE IF nested = <<>> THEN loaded ELSE nested
                ELSE loaded
        IN  [thought |-> thought, action |-> action,
             action_input |-> action_input, final_answer |-> <<>>]

\* str.startswith
StartsWith(text, prefix) ==
    /\ Len(text) >= Len(prefix)
    /\ SubSeq(text, 1, Len(prefix)) = prefix

ErrorHead == <<"u9519", "u8BEF", ":">>

ToolErrorHead == <<"u5DE5", "u5177", "u6267", "u884C", "u9519", "u8BEF", ":">>

UnexpectedKeyword ==
    <<"u", "n", "e", "x", "p", "e", "c", "t", "e", "d", " ", "k", "e", "y",
      "w", "o", "r", "d", " ", "a", "r", "g", "u", "m", "e", "n", "t">>

\* str(list(tools.keys()))
RECURSIVE KeysRepr(_)
KeysRepr(tools) ==
    IF tools = <<>> THEN <<>>
    ELSE (IF Len(tools) = 1 THEN <<>>
          ELSE KeysRepr(SubSeq(tools, 1, Len(tools) - 1)) \o <<",", " ">>)
         \o PyRepr(tools[Len(tools)][1])

\* what tool.execute does: it raises an exception with a message (raises
\* is <<message>>) or it returns a text
ToolOutcome(raises, result) == [raises |-> raises, result |-> result]

\* MemoryReActAgent._execute_tool; tools is the dict of the tools, each
\* with its description, and outcome is what the tool does when it is
\* executed
_execute_tool(tools, action, action_input, outcome) ==
    IF ~DictHas(tools, action)
    THEN <<"u9519", "u8BEF", ":", " ", "u672A", "u77E5", "u5DE5", "u5177",
           " ", "'">> \o action
         \o <<"'", "u3002", "u53EF", "u7528", "u5DE5", "u5177", ":", " ">>
         \o <<"[">> \o KeysRepr(tools) \o <<"]">>
    ELSE IF outcome.raises # <<>>
    THEN ToolErrorHead \o <<" ">> \o outcome.raises[1]
    ELSE outcome.result

\* is_error in run
IsError(observation) ==
    \/ StartsWith(observation, ErrorHead)
    \/ StartsWith(observation, ToolErrorHead)
    \/ Contains(Lower(observation), UnexpectedKeyword)

\* MemoryReActAgent._classify_error: the type of the error
_classify_error(error_msg) ==
    LET error_lower == Lower(error_msg)
        has(sub) == Contains(error_lower, sub)
    IN  IF has(UnexpectedKeyword) \/ has(<<"u53C2", "u6570">>)
        THEN "parameter_error"
        ELSE IF \/ has(<<"u672A", "u77E5", "u5DE5", "u5177">>)
                \/ has(<<"u", "n", "k", "n", "o", "w", "n", " ", "t", "o",
                         "o", "l">>)
        THEN "unknown_tool"
        ELSE IF \/ has(<<"u6587", "u4EF6", "u4E0D", "u5B58", "u5728">>)
                \/ has(<<"n", "o", "t", " ", "e", "x", "i", "s", "t">>)
        THEN "file_not_found"
        ELSE IF \/ has(<<"u6743", "u9650">>)
                \/ has(<<"p", "e", "r", "m", "i", "s", "s", "i", "o", "n">>)
        THEN "permission_error"
        ELSE IF \/ has(<<"u7F51", "u7EDC">>)
                \/ has(<<"n", "e", "t", "w", "o", "r", "k">>)
                \/ has(<<"u8FDE", "u63A5">>)
        THEN "network_error"
        ELSE IF \/ has(<<"u8D85", "u65F6">>)
                \/ has(<<"t", "i", "m", "e", "o", "u", "t">>)
        THEN "timeout"
        ELSE "execution_error"

FileKey == <<"f", "i", "l", "e">>

FilepathKey == <<"f", "i", "l", "e", "p", "a", "t", "h">>

\* "file" in str(action_input) for a dict of str keys and str values
FileInStr(action_input) ==
    \E i \in 1..Len(action_input.dict) :
        \/ Contains(action_input.dict[i][1], FileKey)
        \/ /\ ~IsDict(action_input.dict[i][2])
           /\ Contains(action_input.dict[i][2].str, FileKey)

\* MemoryReActAgent._generate_correction: the corrected input, or None
_generate_correction(tools, action, action_input, error_type) ==
    IF error_type = "parameter_error"
    THEN LET input_value == DictGet(action_input.dict, InputKey)
             nested == json_loads(input_value.str)
             unwrapped ==
                 IF ~DictHas(action_input.dict, InputKey) THEN <<>>
                 ELSE IF IsDict(input_value) THEN <<input_value>>
                 ELSE IF nested # <<>> /\ IsDict(nested[1]) THEN nested
                 ELSE <<>>
             renamed ==
                 [i \in 1..Len(action_input.dict) |->
                     IF action_input.dict[i][1] = FileKey
                     THEN <<FilepathKey, action_input.dict[i][2]>>
                     ELSE action_input.dict[i]]
         IN  IF unwrapped # <<>> THEN unwrapped
             ELSE IF /\ DictHas(tools, action)
                     /\ Contains(DictGet(tools, action), FilepathKey)
                     /\ FileInStr(action_input)
                     /\ DictHas(action_input.dict, FileKey)
                     /\ ~DictHas(action_input.dict, FilepathKey)
             THEN <<JsonObject(
                      SelectIdx(renamed,
                                {i \in 1..Len(renamed) :
                                    renamed[i][1] # FilepathKey})
                      \o SelectIdx(renamed,
                                   {i \in 1..Len(renamed) :
                                       renamed[i][1] = FilepathKey}))>>
             ELSE <<>>
    ELSE IF error_type = "file_not_found"
    THEN <<JsonObject(
             << <<<<"s", "u", "g", "g", "e", "s", "t", "i", "o", "n">>,
                  JsonString(<<"c", "h", "e", "c", "k", "_", "o", "r", "_",
                               "c", "r", "e", "a", "t", "e">>)>>,
                <<<<"o", "r", "i", "g", "i", "n", "a", "l", "_", "p", "a",
                    "r", "a", "m", "s">>, action_input>> >>)>>
    ELSE <<>>

\* bool(x) of an optional value: None is false
TruthyOption(x) == x # <<>> /\ Truthy(x[1])

\* bool(x) of an optional str
TruthyText(x) == x # <<>> /\ x[1] # <<>>

\* MemoryReActAgent._handle_tool_error, response being what the language
\* model answers to the reflection prompt: the corrected action and input
_handle_tool_error(tools, action, action_input, error_msg, response) ==
    LET error_type == _classify_error(error_msg)
        parsed == _parse_response(response)
        correction == _generate_correction(tools, action, action_input,
                                           error_type)
    IN  IF /\ TruthyText(parsed.final_answer)
           /\ ~TruthyText(parsed.action)
           /\ TruthyOption(correction)
        THEN [action |-> <<action>>, action_input |-> correction]
        ELSE IF /\ TruthyOption(parsed.action_input)
                /\ parsed.action_input = <<action_input>>
                /\ TruthyOption(correction)
        THEN [action |-> <<action>>, action_input |-> correction]
        ELSE [action |-> parsed.action, action_input |-> parsed.action_input]

\* the part of run that follows an observation that is an error: the
\* action and the input to execute again, None when nothing is retried
Retry(tools, action, action_input, observation, response) ==
    LET Decide(correction, corrected) ==
            LET correction_action == corrected.action
                correction_action_input == corrected.action_input
                offered == \/ TruthyText(correction_action)
                           \/ TruthyOption(correction_action_input)
                should_retry ==
                    IF offered
                    THEN \/ correction_action # <<action>>
                         \/ correction_action_input # <<action_input>>
                    ELSE TruthyOption(correction)
                final_action ==
                    IF offered /\ should_retry
                       /\ TruthyText(correction_action)
                    THEN correction_action ELSE <<action>>
                final_input ==
                    IF ~offered THEN correction
                    ELSE IF should_retry
                            /\ TruthyOption(correction_action_input)
                    THEN correction_action_input ELSE <<action_input>>
            IN  IF should_retry /\ TruthyText(final_action)
                   /\ TruthyOption(final_input)
                THEN <<[action |-> final_action[1],
                        action_input |-> final_input[1]]>>
                ELSE <<>>
    IN  Decide(_generate_correction(tools, action, action_input,
                                    _classify_error(observation)),
               _handle_tool_error(tools, action, action_input,
                                  observation, response))

\* one turn of the loop of run, up to the calls on the memory manager.
\* response is what the language model answers to the prompt, outcome what
\* the tool does, reflection what the language model answers to the
\* reflection prompt and again what the tool does when it is executed
\* again.  final_answer is the answer run returns (None when the loop
\* goes on), recorded the arguments of add_tool_execution (None when it
\* is not called), events the calls made, in order.
\* This one hands the first execution to add_tool_execution when the tool
\* was executed again.
Iteration_recording_first(tools, response, outcome, reflection, again) ==
    LET Executed(action, action_input, observation) ==
            <<"tool", action, json_dumps(action_input), observation>>
        Recorded(action, action_input, observation) ==
            <<[tool_name |-> action,
               input_data |-> json_dumps(action_input),
               output |-> observation]>>
        Retried(action, action_input, observation, retry) ==
            IF retry = <<>>
            THEN [final_answer |-> <<>>,
                  recorded |-> Recorded(action, action_input, observation),
                  events |-> << <<"llm">>,
                                Executed(action, action_input, observation),
                                <<"llm">> >>]
            ELSE [final_answer |-> <<>>,
                  recorded |-> Recorded(action, action_input, observation),
                  events |-> << <<"llm">>,
                                Executed(action, action_input, observation),
                                <<"llm">>,
                                Executed(retry[1].action,
                                         retry[1].action_input,
                                         _execute_tool(tools, retry[1].action,
                                                       retry[1].action_input,
                                                       again)) >>]
        Observed(action, action_input, observation) ==
            IF ~IsError(observation)
            THEN [final_answer |-> <<>>,
                  recorded |-> Recorded(action, action_input, observation),
                  events |-> << <<"llm">>,
                                Executed(action, action_input,
                                         observation) >>]
            ELSE Retried(action, action_input, observation,
                         Retry(tools, action, action_input, observation,
                               reflection))
        Parsed(parsed) ==
            IF TruthyText(parsed.final_answer)
            THEN [final_answer |-> parsed.final_answer, recorded |-> <<>>,
                  events |-> << <<"llm">> >>]
            ELSE IF parsed.action = <<>> \/ parsed.action_input = <<>>
            THEN [final_answer |-> <<>>, recorded |-> <<>>,
                  events |-> << <<"llm">> >>]
            ELSE Observed(parsed.action[1], parsed.action_input[1],
                          _execute_tool(tools, parsed.action[1],
                                        parsed.action_input[1], outcome))
    IN  Parsed(_parse_response(response))

\* the turn as run makes it: the execution handed to add_tool_execution
\* is the second one when the tool was executed again
Iteration(tools, response, outcome, reflection, again) ==
    LET Executed(action, action_input, observation) ==
            <<"tool", action, json_dumps(action_input), observation>>
        Recorded(action, action_input, observation) ==
            <<[tool_name |-> action,
               input_data |-> json_dumps(action_input),
               output |-> observation]>>
        Again(action, action_input, observation, retry, retried) ==
            [final_answer |-> <<>>,
             recorded |-> Recorded(retry.action, retry.action_input, retried),
             events |-> << <<"llm">>,
                           Executed(action, action_input, observation),
                           <<"llm">>,
                           Executed(retry.action, retry.action_input,
                                    retried) >>]
        Retried(action, action_input, observation, retry) ==
            IF retry = <<>>
            THEN [final_answer |-> <<>>,
                  recorded |-> Recorded(action, action_input, observation),
                  events |-> << <<"llm">>,
                                Executed(action, action_input, observation),
                                <<"llm">> >>]
            ELSE Again(action, action_input, observation, retry[1],
                       _execute_tool(tools, retry[1].action,
                                     retry[1].action_input, again))
        Observed(action, action_input, observation) ==
            IF ~IsError(observation)
            THEN [final_answer |-> <<>>,
                  recorded |-> Recorded(action, action_input, observation),
                  events |-> << <<"llm">>,
                                Executed(action, action_input,
                                         observation) >>]
            ELSE Retried(action, action_input, observation,
                         Retry(tools, action, action_input, observation,
                               reflection))
        Parsed(parsed) ==
            IF TruthyText(parsed.final_answer)
            THEN [final_answer |-> parsed.final_answer, recorded |-> <<>>,
                  events |-> << <<"llm">> >>]
            ELSE IF parsed.action = <<>> \/ parsed.action_input = <<>>
            THEN [final_answer |-> <<>>, recorded |-> <<>>,
                  events |-> << <<"llm">> >>]
            ELSE Observed(parsed.action[1], parsed.action_input[1],
                          _execute_tool(tools, parsed.action[1],
                                        parsed.action_input[1], outcome))
    IN  Parsed(_parse_response(response))

NotCompleted ==
    <<"u8FBE", "u5230", "u6700", "u5927", "u8FED", "u4EE3", "u6B21",
      "u6570", "uFF0C", "u4EFB", "u52A1", "u672A", "u5B8C", "u6210",
      "u3002">>

(***************************************************************************)
(* State                                                                   *)
(***************************************************************************)
VARIABLES
    now,                  \* the clock: what time.time() returns
    session_id,           \* MemoryManager.session_id
    conversation_memory,  \* MemoryManager.conversation_memory
    persistent_memory,    \* MemoryManager.persistent_memory
    long_term_file,       \* memory/long_term.json
    session_files,        \* memory/sessions/<id>.json for every id
    call,                 \* the last call made, with its arguments
    ret,                  \* what the last call returned
    history,              \* every entry appended to the conversation memory,
                          \* in order
    cleared,              \* how many of them were appended before the last
                          \* clear
    saved_entries,        \* for every session id, the entries the
                          \* conversation memory held at its last save
    vector_store,         \* the InMemoryVectorStore of the RAG system
    llm,                  \* RAGSystem.llm: None, or a generation capability
    invoked,              \* the prompts the last call handed to llm.invoke
    raised,               \* the exception the last call raised, if any
    peer,                 \* a second MemoryManager live on the same storage
                          \* directory, None until it is constructed
    tfidf,                \* a TFIDFEmbedding, None until it is constructed
    store_file,           \* the file vector_store.save writes, None until
                          \* it is written
    saved_store,          \* the vector store as it was at the last save
    agent                 \* the call of MemoryReActAgent.run under way, None
                          \* before it starts

mem_vars ==
    <<now, session_id, conversation_memory, persistent_memory,
      long_term_file, session_files, call, ret, history, cleared,
      saved_entries>>

\* the state of the memory classes
mem_data ==
    <<now, session_id, conversation_memory, persistent_memory,
      long_term_file, session_files, history, cleared, saved_entries>>

vec_vars == <<vector_store, llm, invoked, raised>>

\* the variables that only the specifications of their own change
aux_vars == <<peer, tfidf, store_file, saved_store, agent>>

\* aux_vars without peer, without tfidf, and without the saved store
beside_peer == <<tfidf, store_file, saved_store, agent>>

beside_tfidf == <<peer, store_file, saved_store, agent>>

beside_store == <<peer, tfidf, agent>>

beside_agent == <<peer, tfidf, store_file, saved_store>>

\* what the calls on the memory leave alone
rest_vars == <<vec_vars, aux_vars>>

vars == <<mem_vars, vec_vars, aux_vars>>

InitAux ==
    /\ peer = <<>>
    /\ tfidf = <<>>
    /\ store_file = <<>>
    /\ saved_store = <<>>
    /\ agent = <<>>

(***************************************************************************)
(* Inputs of the calls                                                     *)
(***************************************************************************)
Repeat(c, n) == [i \in 1..n |-> c]

SessionIds == {"s1", "s2"}

UserInputs == { <<"T", "h", "e", " ", "c", "a", "t">> }

\* one response longer than 50 characters and one of exactly 50
Responses == { Repeat("A", 51), Repeat("b", 50) }

Summaries == { <<"c", "a", "t", " ", "c", "a", "t">> }

ToolNames == { <<"c", "a", "l", "c">> }

ToolInputs == { <<"1", "+", "1">> }

ToolOutputs == { <<"2">> }

\* arguments of a direct ConversationMemory.add
AddContents == { <<"h", "i">> }

AddMetadatas == { << << <<"k", <<"v">>>> >> >> }

AddImportances == {3, 5}

\* arguments of a direct PersistentMemory.store_important
StoreContents == { <<"f", "a", "c", "t">> }

StoreImportances == {7, 8}

(***************************************************************************)
(* Initial state: a MemoryManager constructed on an empty storage          *)
(* directory                                                               *)
(***************************************************************************)
InitMemory ==
    /\ now = 0
    /\ \E sid \in {"s1"}, max_conversation_entries \in 0..MaxCap :
         LET mm == MemoryManager_init(sid, max_conversation_entries, 0,
                                      <<>>, [s \in SessionIds |-> <<>>])
         IN  /\ session_id = mm.session_id
             /\ conversation_memory = mm.conversation_memory
             /\ persistent_memory = mm.persistent_memory
    /\ long_term_file = <<>>
    /\ session_files = [s \in SessionIds |-> <<>>]
    /\ call = [op |-> "MemoryManager"]
    /\ ret = <<>>
    /\ history = <<>>
    /\ cleared = 0
    /\ saved_entries = [s \in SessionIds |-> <<>>]
    /\ vector_store = InMemoryVectorStore_init(26)
    /\ llm = <<>>
    /\ invoked = <<>>
    /\ raised = <<>>
    /\ InitAux

(***************************************************************************)
(* Actions: one per call                                                   *)
(***************************************************************************)
\* the clock advances between two calls
Tick ==
    /\ now < MaxTime
    /\ now' = now + 1
    /\ call' = [op |-> "tick"]
    /\ UNCHANGED <<cleared, session_id, conversation_memory, persistent_memory,
                   long_term_file, session_files, ret, history,
                   saved_entries>>
    /\ UNCHANGED rest_vars

CanAdd == Len(history) < MaxAdds

CanStore == Len(persistent_memory.long_term_entries) < MaxLongTerm

\* conversation_memory.add(content, "result", metadata, importance)
Add ==
    /\ CanAdd
    /\ \E content \in AddContents, metadata \in AddMetadatas,
          importance \in AddImportances :
         LET r == ConversationMemory_add(conversation_memory, now, content,
                                         "result", metadata, importance)
         IN  /\ conversation_memory' = r.cm
             /\ ret' = r.ret
             /\ history' = Append(history, r.entry)
             /\ call' = [op |-> "ConversationMemory.add",
                         importance |-> importance]
    /\ UNCHANGED <<cleared, now, session_id, persistent_memory, long_term_file,
                   session_files, saved_entries>>
    /\ UNCHANGED rest_vars

\* memory_manager.add_user_input(user_input)
AddUserInput ==
    /\ CanAdd
    /\ \E user_input \in UserInputs :
         LET r == MemoryManager_add_user_input(conversation_memory, now,
                                               user_input)
         IN  /\ conversation_memory' = r.cm
             /\ ret' = r.ret
             /\ history' = Append(history, r.entry)
             /\ call' = [op |-> "MemoryManager.add_user_input"]
    /\ UNCHANGED <<cleared, now, session_id, persistent_memory, long_term_file,
                   session_files, saved_entries>>
    /\ UNCHANGED rest_vars

\* memory_manager.add_assistant_response(response)
AddAssistantResponse ==
    /\ CanAdd
    /\ \E response \in Responses :
         LET r == MemoryManager_add_assistant_response(
                      conversation_memory, persistent_memory,
                      long_term_file, now, response)
         IN  /\ conversation_memory' = r.cm
             /\ persistent_memory' = r.pm
             /\ long_term_file' = r.long_term_file
             /\ ret' = r.ret
             /\ history' = Append(history, r.entry)
             /\ call' = [op |-> "MemoryManager.add_assistant_response",
                         response |-> response]
    /\ UNCHANGED <<cleared, now, session_id, session_files, saved_entries>>
    /\ UNCHANGED rest_vars

\* memory_manager.add_tool_execution(tool_name, input_data, output)
AddToolExecution ==
    /\ CanAdd
    /\ \E tool_name \in ToolNames, input_data \in ToolInputs,
          output \in ToolOutputs :
         LET r == MemoryManager_add_tool_execution(
                      conversation_memory, now, tool_name, input_data, output)
         IN  /\ conversation_memory' = r.cm
             /\ ret' = r.ret
             /\ history' = Append(history, r.entry)
             /\ call' = [op |-> "MemoryManager.add_tool_execution"]
    /\ UNCHANGED <<cleared, now, session_id, persistent_memory, long_term_file,
                   session_files, saved_entries>>
    /\ UNCHANGED rest_vars

\* memory_manager.add_summary(summary)
AddSummary ==
    /\ CanAdd
    /\ \E summary \in Summaries :
         LET r == MemoryManager_add_summary(
                      conversation_memory, persistent_memory,
                      long_term_file, now, summary)
         IN  /\ conversation_memory' = r.cm
             /\ persistent_memory' = r.pm
             /\ long_term_file' = r.long_term_file
             /\ ret' = r.ret
             /\ history' = Append(history, r.entry)
             /\ call' = [op |-> "MemoryManager.add_summary"]
    /\ UNCHANGED <<cleared, now, session_id, session_files, saved_entries>>
    /\ UNCHANGED rest_vars

\* persistent_memory.store_important(content, importance)
StoreImportant ==
    /\ CanStore
    /\ \E content \in StoreContents, importance \in StoreImportances :
         LET r == PersistentMemory_store_important(
                      persistent_memory, long_term_file, now, content,
                      importance)
         IN  /\ persistent_memory' = r.pm
             /\ long_term_file' = r.long_term_file
             /\ ret' = r.ret
             /\ call' = [op |-> "PersistentMemory.store_important",
                         importance |-> importance]
    /\ UNCHANGED <<cleared, now, session_id, conversation_memory, session_files,
                   history, saved_entries>>
    /\ UNCHANGED rest_vars

\* memory_manager.clear_conversation_memory()
Clear ==
    /\ conversation_memory' = ConversationMemory_clear(conversation_memory)
    /\ cleared' = Len(history)
    /\ ret' = <<>>
    /\ call' = [op |-> "ConversationMemory.clear"]
    /\ UNCHANGED <<history, now, session_id, persistent_memory, long_term_file,
                   session_files, saved_entries>>
    /\ UNCHANGED rest_vars

\* memory_manager.save_session()
SaveSession ==
    /\ session_files' = MemoryManager_save_session(
                            session_files, now, session_id,
                            conversation_memory)
    /\ saved_entries' = [saved_entries EXCEPT
                           ![session_id] = <<conversation_memory.entries>>]
    /\ ret' = <<>>
    /\ call' = [op |-> "MemoryManager.save_session"]
    /\ UNCHANGED <<cleared, now, session_id, conversation_memory, persistent_memory,
                   long_term_file, history>>
    /\ UNCHANGED rest_vars

\* persistent_memory.load_session(sid)
LoadSession ==
    /\ \E sid \in SessionIds :
         /\ ret' = PersistentMemory_load_session(session_files, sid)
         /\ call' = [op |-> "PersistentMemory.load_session",
                     session_id |-> sid]
    /\ UNCHANGED <<cleared, now, session_id, conversation_memory, persistent_memory,
                   long_term_file, session_files, history, saved_entries>>
    /\ UNCHANGED rest_vars

(***************************************************************************)
(* Inputs of the calls on the vector store and on the RAG system           *)
(***************************************************************************)
\* the dimensions a store is constructed with: the default, and one that
\* the embeddings of SimpleEmbedding do not have
Dimensions == {2, 26}

\* a vector of 26 components that starts with v and goes on with 0.0
Pad(v) == v \o [i \in 1..(26 - Len(v)) |-> Float(0)]

DocumentA == Document(<<"a">>, <<>>, <<>>, <<>>)

DocumentKB ==
    Document(<<"a", "b", "c", "d">>,
             << << <<"source", <<"k", "b">>>> >> >>, <<>>, <<>>)

PlainB == PlainString(<<"b">>)


\* supplied embeddings: of 26 components with a negative one, of 26
\* components with a NaN, and of 2 components
Negative == Pad(<<Float(-1)>>)

NotANumber == Pad(<<NaN>>)

Short == <<Float(3), Float(4)>>

\* the arguments of add: the documents, and the embeddings (None, or a
\* list)
AddArguments ==
    { << <<>>, <<>> >>,
      << <<DocumentA>>, <<>> >>,
      << <<DocumentKB>>, <<>> >>,
      << <<PlainB>>, <<>> >>,
      << <<DocumentA, DocumentKB>>, <<>> >>,
      << <<DocumentA>>, << <<Negative>> >> >>,
      << <<DocumentA>>, << <<NotANumber>> >> >>,
      << <<DocumentKB>>, << <<Short>> >> >>,
      << <<DocumentA, DocumentKB>>, << <<Short>> >> >>,
      << <<DocumentA, DocumentKB>>, << <<Negative, Short>> >> >>,
      << <<DocumentA, DocumentKB>>, << <<Short, Negative>> >> >> }

DeleteIds == { <<0>>, <<1>>, <<0, 7>> }

\* one question with four letters and one with none
Questions == { <<"a", "b", "c", "d">>, <<"?">> }

Ks == {0, 1, 5}

\* the filter argument: None, a filter DocumentKB satisfies, and a filter
\* no document satisfies
Filters ==
    { <<>>, << << <<"source", <<"k", "b">>>> >> >>,
      << << <<"source", <<"z">>>> >> >> }

\* no generation capability is configured: invoke is never called
NoResponse == StrResponse(<<>>)

Ok == <<" ", "o", "k", "\n">>

\* an object with a content attribute, a dict with a 'content' key, a
\* str, a dict without a 'content' key, a dict with a content attribute
\* that differs from its 'content' key, and an exception
LLMResponses ==
    { ObjectResponse(Ok, <<"c", "o", "n", "t", "e", "n", "t", "=">>
                         \o PyRepr(Ok)),
      DictResponse(<< <<ContentKey, Ok>> >>),
      StrResponse(Ok),
      DictResponse(<< <<<<"t", "e", "x", "t">>, Ok>> >>),
      DictObjectResponse(<<"a", "t", "t", "r">>,
                         << <<ContentKey, <<"k", "e", "y">>>> >>),
      Raising(<<"b", "o", "o", "m">>) }

(***************************************************************************)
(* Initial state: an empty InMemoryVectorStore and a RAGSystem over it,    *)
(* with or without a generation capability                                 *)
(***************************************************************************)
InitVector ==
    /\ now = 0
    /\ LET mm == MemoryManager_init("s1", MaxCap, 0, <<>>,
                                    [s \in SessionIds |-> <<>>])
       IN  /\ session_id = mm.session_id
           /\ conversation_memory = mm.conversation_memory
           /\ persistent_memory = mm.persistent_memory
    /\ long_term_file = <<>>
    /\ session_files = [s \in SessionIds |-> <<>>]
    /\ history = <<>>
    /\ cleared = 0
    /\ saved_entries = [s \in SessionIds |-> <<>>]
    /\ \E dimension \in Dimensions :
         vector_store = InMemoryVectorStore_init(dimension)
    /\ llm \in {<<>>, <<"llm">>}
    /\ invoked = <<>>
    /\ raised = <<>>
    /\ InitAux
    /\ call = [op |-> "RAGSystem"]
    /\ ret = <<>>

(***************************************************************************)
(* Actions on the vector store and on the RAG system                       *)
(***************************************************************************)
\* vector_store.add(documents, embeddings)
VectorAdd ==
    /\ \E arguments \in AddArguments :
         LET documents == arguments[1]
             embeddings == arguments[2]
             r == InMemoryVectorStore_add(vector_store, documents,
                                          embeddings)
         IN  /\ Len(r.vs.documents) <= MaxDocs
             /\ vector_store' = r.vs
             /\ raised' = r.raised
             /\ call' = [op |-> "InMemoryVectorStore.add",
                         documents |-> documents,
                         embeddings |-> embeddings]
    /\ ret' = <<>>
    /\ invoked' = <<>>
    /\ UNCHANGED <<llm, mem_data, aux_vars>>

\* vector_store.delete(ids)
VectorDelete ==
    /\ \E ids \in DeleteIds :
         /\ vector_store' = InMemoryVectorStore_delete(vector_store, ids)
         /\ call' = [op |-> "InMemoryVectorStore.delete", ids |-> ids]
    /\ raised' = <<>>
    /\ ret' = <<>>
    /\ invoked' = <<>>
    /\ UNCHANGED <<llm, mem_data, aux_vars>>

\* rag.query(question, k, filter); response is what llm.invoke does if the
\* query calls it.  A query leaves the store and the RAG system as they
\* are, so a query that follows a query returns what it returns when it
\* is asked in its place: the caller asks after a call of another kind.
Query ==
    /\ call.op # "RAGSystem.query"
    /\ \E question \in Questions, k \in Ks, filter \in Filters,
          response \in IF llm = <<>> THEN {NoResponse} ELSE LLMResponses :
         \E r \in RAGSystem_query(vector_store, llm, question, k, filter,
                                  response) :
            /\ ret' = r.ret
            /\ invoked' = r.invoked
            /\ call' = [op |-> "RAGSystem.query", question |-> question,
                        k |-> k, filter |-> filter, response |-> response]
    /\ raised' = <<>>
    /\ UNCHANGED <<vector_store, llm, mem_data, aux_vars>>

\* a caller that fills the store, deletes from it and asks questions
NextVector ==
    \/ VectorAdd
    \/ VectorDelete
    \/ Query

SpecVector == InitVector /\ [][NextVector]_vars

(***************************************************************************)
(* similarity_search called directly, on a store filled one document at a  *)
(* time                                                                    *)
(***************************************************************************)
\* the arguments of an add of one document: the document, and the
\* embeddings (None, or a list of one)
StoreArguments ==
    { << <<DocumentA>>, <<>> >>,
      << <<DocumentKB>>, <<>> >>,
      << <<PlainB>>, <<>> >>,
      << <<DocumentKB>>, << <<Negative>> >> >>,
      << <<DocumentA>>, << <<NotANumber>> >> >> }

TopKs == {0, 1, 2, MaxStored + 1}

InitTopK ==
    /\ InitVector
    /\ vector_store.dimension = 26
    /\ llm = <<>>

\* vector_store.add([document], embeddings)
Store ==
    /\ Len(vector_store.documents) < MaxStored
    /\ \E arguments \in StoreArguments :
         LET r == InMemoryVectorStore_add(vector_store, arguments[1],
                                          arguments[2])
         IN  /\ vector_store' = r.vs
             /\ raised' = r.raised
             /\ call' = [op |-> "InMemoryVectorStore.add",
                         documents |-> arguments[1],
                         embeddings |-> arguments[2]]
    /\ ret' = <<>>
    /\ invoked' = <<>>
    /\ UNCHANGED <<llm, mem_data, aux_vars>>

\* vector_store.similarity_search(query, k, filter), asked after a call of
\* another kind
SimilaritySearch ==
    /\ call.op # "InMemoryVectorStore.similarity_search"
    /\ \E query \in Questions, k \in TopKs, filter \in Filters :
         /\ ret' \in similarity_search(vector_store, query, k, filter)
         /\ call' = [op |-> "InMemoryVectorStore.similarity_search",
                     query |-> query, k |-> k, filter |-> filter]
    /\ raised' = <<>>
    /\ invoked' = <<>>
    /\ UNCHANGED <<vector_store, llm, mem_data, aux_vars>>

\* a caller that fills the store, deletes from it and searches it
NextTopK ==
    \/ Store
    \/ VectorDelete
    \/ SimilaritySearch

SpecTopK == InitTopK /\ [][NextTopK]_vars

(***************************************************************************)
(* A caller that saves the store to a file and loads the file, into the    *)
(* same store or into a new one                                            *)
(***************************************************************************)
\* vector_store = InMemoryVectorStore(dimension=dimension)
VectorConstruct ==
    /\ \E dimension \in Dimensions :
         /\ vector_store' = InMemoryVectorStore_init(dimension)
         /\ call' = [op |-> "InMemoryVectorStore.__init__",
                     dimension |-> dimension]
    /\ raised' = <<>>
    /\ ret' = <<>>
    /\ invoked' = <<>>
    /\ UNCHANGED <<llm, mem_data, aux_vars>>

\* vector_store.save(path)
VectorSave ==
    /\ store_file' = <<InMemoryVectorStore_save(vector_store)>>
    /\ saved_store' = <<vector_store>>
    /\ call' = [op |-> "InMemoryVectorStore.save"]
    /\ raised' = <<>>
    /\ ret' = <<>>
    /\ invoked' = <<>>
    /\ UNCHANGED <<vector_store, llm, mem_data, beside_store>>

\* vector_store.load(path); the call record keeps the store as it was
\* before the call
VectorLoad ==
    /\ LET r == InMemoryVectorStore_load(vector_store, store_file)
       IN  /\ vector_store' = r.vs
           /\ raised' = r.raised
    /\ call' = [op |-> "InMemoryVectorStore.load", before |-> vector_store]
    /\ ret' = <<>>
    /\ invoked' = <<>>
    /\ UNCHANGED <<llm, mem_data, aux_vars>>

\* the arguments of add: one document, with an embedding of 2 components
\* among those supplied
SaveLoadArguments ==
    StoreArguments \cup { << <<DocumentKB>>, << <<Short>> >> >> }

\* vector_store.add([document], embeddings) on a store of fewer than
\* MaxDocs documents
StoreFew ==
    /\ Len(vector_store.documents) < MaxDocs
    /\ \E arguments \in SaveLoadArguments :
         LET r == InMemoryVectorStore_add(vector_store, arguments[1],
                                          arguments[2])
         IN  /\ vector_store' = r.vs
             /\ raised' = r.raised
             /\ call' = [op |-> "InMemoryVectorStore.add",
                         documents |-> arguments[1],
                         embeddings |-> arguments[2]]
    /\ ret' = <<>>
    /\ invoked' = <<>>
    /\ UNCHANGED <<llm, mem_data, aux_vars>>

NextSaveLoad ==
    \/ VectorConstruct
    \/ StoreFew
    \/ VectorDelete
    \/ VectorSave
    \/ VectorLoad

SpecSaveLoad == InitTopK /\ [][NextSaveLoad]_vars

(***************************************************************************)
(* MemoryReActAgent.run, one step from one call of the language model to   *)
(* the next turn of the loop                                               *)
(***************************************************************************)
MaxIterations == 2

AgentTasks == UserInputs

Calc == <<"c", "a", "l", "c">>

\* the tools of the agent, each with its description
AgentTools == << <<Calc, <<"m", "a", "t", "h">>>> >>

Thinking == <<<<" ", "h", "m", "\n">>>>

\* what the language model answers to the prompt: a final answer, a final
\* answer of white space, a call of calc with a JSON input and with an
\* input that is no JSON, a call of a tool that does not exist, an action
\* without input
AgentResponses ==
    { AgentResponse(Thinking, <<<<" ", "o", "k">>>>, <<>>, <<>>),
      AgentResponse(Thinking, <<<<" ">>>>, <<>>, <<>>),
      AgentResponse(Thinking, <<>>, <<Calc>>, <<json_dumps(InputOne)>>),
      AgentResponse(<<>>, <<>>, <<Calc>>, <<<<"x">>>>),
      AgentResponse(<<>>, <<>>, <<<<"n", "o", "p", "e">>>>,
                    <<json_dumps(InputOne)>>),
      AgentResponse(Thinking, <<>>, <<Calc>>, <<>>) }

\* what it answers to the reflection prompt: the same call, the call with
\* another input, a final answer, a thought alone
ReflectionResponses ==
    { AgentResponse(<<>>, <<>>, <<Calc>>, <<json_dumps(InputOne)>>),
      AgentResponse(<<>>, <<>>, <<Calc>>, <<json_dumps(InputTwo)>>),
      AgentResponse(<<>>, <<<<"o", "k">>>>, <<>>, <<>>),
      AgentResponse(Thinking, <<>>, <<>>, <<>>) }

\* what calc does: it returns, or raises one of three errors
ToolOutcomes ==
    { ToolOutcome(<<>>, <<"4">>),
      ToolOutcome(<<<<"b", "o", "o", "m">>>>, <<>>),
      ToolOutcome(<<<<"u6587", "u4EF6", "u4E0D", "u5B58", "u5728">>>>, <<>>),
      ToolOutcome(<<UnexpectedKeyword>>, <<>>) }

\* the turns the loop can make
Turns ==
    {Iteration(AgentTools, response, outcome, reflection, again) :
        response \in AgentResponses, outcome \in ToolOutcomes,
        reflection \in ReflectionResponses, again \in ToolOutcomes}

\* agent.run(task), up to the loop.  The events of the call under way are
\* the calls it made on the memory manager, the language model and the
\* tools, in order, with a mark at the start of every turn of the loop
RunStart ==
    /\ agent = <<>>
    /\ \E task \in AgentTasks, max_iterations \in 0..MaxIterations :
         LET r == MemoryManager_add_user_input(conversation_memory, now,
                                               task)
         IN  /\ conversation_memory' = r.cm
             /\ history' = Append(history, r.entry)
             /\ agent' = <<[task |-> task,
                            max_iterations |-> max_iterations,
                            i |-> 0,
                            history |-> <<>>,
                            events |-> << <<"add_user_input", task>> >>,
                            returned |-> <<>>]>>
             /\ call' = [op |-> "MemoryReActAgent.run", task |-> task]
    /\ ret' = <<>>
    /\ UNCHANGED <<cleared, now, session_id, persistent_memory,
                   long_term_file, session_files, saved_entries>>
    /\ UNCHANGED <<vec_vars, beside_agent>>

\* the turn that parses a final answer: run records it and returns it
RunFinish(turn) ==
    LET final_answer == turn.final_answer[1]
        r == MemoryManager_add_assistant_response(
                 conversation_memory, persistent_memory, long_term_file,
                 now, final_answer)
    IN  /\ conversation_memory' = r.cm
        /\ persistent_memory' = r.pm
        /\ long_term_file' = r.long_term_file
        /\ history' = Append(history, r.entry)
        /\ session_files' = MemoryManager_save_session(
                                session_files, now, session_id, r.cm)
        /\ saved_entries' = [saved_entries EXCEPT
                               ![session_id] = <<r.cm.entries>>]
        /\ agent' = <<[agent[1] EXCEPT
                         !.history = Append(@, [task |-> agent[1].task,
                                                answer |-> final_answer]),
                         !.events = @ \o << <<"iteration", agent[1].i>> >>
                                      \o turn.events
                                      \o << <<"add_assistant_response",
                                              final_answer>>,
                                            <<"save_session">>,
                                            <<"return", final_answer>> >>,
                         !.returned = <<final_answer>>]>>
        /\ ret' = final_answer

\* the turn that goes on: run records the tool execution, if there was one
RunGoOn(turn) ==
    /\ IF turn.recorded = <<>>
       THEN /\ UNCHANGED <<conversation_memory, history>>
            /\ agent' = <<[agent[1] EXCEPT
                              !.i = @ + 1,
                              !.events = @ \o << <<"iteration", agent[1].i>> >>
                                           \o turn.events]>>
       ELSE LET r == MemoryManager_add_tool_execution(
                         conversation_memory, now,
                         turn.recorded[1].tool_name,
                         turn.recorded[1].input_data,
                         turn.recorded[1].output)
            IN  /\ conversation_memory' = r.cm
                /\ history' = Append(history, r.entry)
                /\ agent' =
                       <<[agent[1] EXCEPT
                            !.i = @ + 1,
                            !.events =
                                @ \o << <<"iteration", agent[1].i>> >>
                                  \o turn.events
                                  \o << <<"add_tool_execution",
                                          turn.recorded[1].tool_name,
                                          turn.recorded[1].input_data,
                                          turn.recorded[1].output>> >>]>>
    /\ ret' = <<>>
    /\ UNCHANGED <<persistent_memory, long_term_file, session_files,
                   saved_entries>>

\* one turn of the loop
RunIteration ==
    /\ agent # <<>>
    /\ agent[1].returned = <<>>
    /\ agent[1].i < agent[1].max_iterations
    /\ \E turn \in Turns :
         IF turn.final_answer # <<>> THEN RunFinish(turn)
         ELSE RunGoOn(turn)
    /\ call' = [op |-> "MemoryReActAgent.run", task |-> agent[1].task]
    /\ UNCHANGED <<cleared, now, session_id>>
    /\ UNCHANGED <<vec_vars, beside_agent>>

\* the loop is over: run returns the fixed message
RunExhausted ==
    /\ agent # <<>>
    /\ agent[1].returned = <<>>
    /\ agent[1].i >= agent[1].max_iterations
    /\ agent' = <<[agent[1] EXCEPT
                     !.events = Append(@, <<"return", NotCompleted>>),
                     !.returned = <<NotCompleted>>]>>
    /\ ret' = NotCompleted
    /\ call' = [op |-> "MemoryReActAgent.run", task |-> agent[1].task]
    /\ UNCHANGED <<mem_data, vec_vars, beside_agent>>

NextAgent ==
    \/ RunStart
    \/ RunIteration
    \/ RunExhausted

SpecAgent == InitMemory /\ [][NextAgent]_vars

(***************************************************************************)
(* _cosine_similarity on its own: the vectors are the embeddings of texts  *)
(* and embeddings a caller supplies                                        *)
(***************************************************************************)
CosineTexts ==
    { <<>>, <<"a">>, <<"a", "b">>, <<"a", "b", "c">>,
      <<"h", "e", "l", "l", "o">>, <<"H", "e", "l", "l", "o">>,
      <<"a", "b", "c", "d", "e">>, <<"a", "b", "c", "d", "e", "f">> }

CosineVectors ==
    {List(SimpleEmbedding_embed(text)) : text \in CosineTexts}
    \cup { Negative, Pad(<<Float(-1), Float(-1), Float(-1)>>),
           Pad(<<Float(3), Float(4)>>), Pad(<<Float(1), Float(2)>>),
           Pad(<<Float(0), <<1, 2>>>>), Short }

InitCosine ==
    /\ now = 0
    /\ LET mm == MemoryManager_init("s1", MaxCap, 0, <<>>,
                                    [s \in SessionIds |-> <<>>])
       IN  /\ session_id = mm.session_id
           /\ conversation_memory = mm.conversation_memory
           /\ persistent_memory = mm.persistent_memory
    /\ long_term_file = <<>>
    /\ session_files = [s \in SessionIds |-> <<>>]
    /\ history = <<>>
    /\ cleared = 0
    /\ saved_entries = [s \in SessionIds |-> <<>>]
    /\ vector_store = InMemoryVectorStore_init(26)
    /\ llm = <<>>
    /\ invoked = <<>>
    /\ raised = <<>>
    /\ InitAux
    /\ \E a \in CosineVectors, b \in CosineVectors :
         call = [op |-> "vectors", a |-> a, b |-> b]
    /\ ret = <<>>

\* self._cosine_similarity(a, b)
CosineSimilarity ==
    /\ call.op = "vectors"
    /\ call' = [op |-> "_cosine_similarity", a |-> call.a, b |-> call.b]
    /\ ret' = _cosine_similarity(call.a, call.b)
    /\ UNCHANGED <<mem_data, rest_vars>>

NextCosine == CosineSimilarity

SpecCosine == InitCosine /\ [][NextCosine]_vars

(***************************************************************************)
(* A TFIDFEmbedding on its own                                             *)
(***************************************************************************)
Cat == <<"c", "a", "t">>

Dog == <<"d", "o", "g">>

Hi == <<"h", "i">>

\* the vocabulary argument: None, an empty dict, and dicts of one, two
\* and three tokens
Vocabularies ==
    { <<>>, << <<>> >>,
      << << <<Cat, 0>> >> >>,
      << << <<Cat, 0>>, <<Dog, 1>> >> >>,
      << << <<Cat, 0>>, <<Dog, 1>>, <<Hi, 2>> >> >> }

EmbedTexts ==
    { <<>>, <<"?">>, Cat, <<"C", "a", "t", " ", "c", "a", "t">>,
      Dog \o <<" ">> \o Cat, Hi, Hi \o <<",", " ">> \o Dog,
      <<"t", "h", "e">> }

\* tfidf = TFIDFEmbedding(vocabulary)
TFIDFConstruct ==
    /\ tfidf = <<>>
    /\ \E vocabulary \in Vocabularies :
         /\ tfidf' = <<TFIDFEmbedding_init(vocabulary)>>
         /\ call' = [op |-> "TFIDFEmbedding", vocabulary |-> vocabulary]
    /\ ret' = <<>>
    /\ raised' = <<>>
    /\ UNCHANGED <<mem_data, vector_store, llm, invoked, beside_tfidf>>

\* tfidf.embed(text)
TFIDFEmbed ==
    /\ tfidf # <<>>
    /\ \E text \in EmbedTexts :
         LET r == TFIDFEmbedding_embed(tfidf[1], text)
         IN  /\ tfidf' = <<r.tfidf>>
             /\ ret' = r.ret
             /\ raised' = r.raised
             /\ call' = [op |-> "TFIDFEmbedding.embed", text |-> text]
    /\ UNCHANGED <<mem_data, vector_store, llm, invoked, beside_tfidf>>

NextTFIDF ==
    \/ TFIDFConstruct
    \/ TFIDFEmbed

SpecTFIDF == InitTopK /\ [][NextTFIDF]_vars

(***************************************************************************)
(* Specifications.  The caller of the memory classes is free in the calls  *)
(* it makes; each specification below is one kind of caller.               *)
(***************************************************************************)
\* a caller that records turns and clears the conversation memory
NextConversation ==
    \/ Tick
    \/ Add
    \/ AddUserInput
    \/ AddAssistantResponse
    \/ AddToolExecution
    \/ AddSummary
    \/ Clear

SpecConversation == InitMemory /\ [][NextConversation]_vars

\* a caller that records turns and stores long-term memories
NextPersistent ==
    \/ Tick
    \/ AddUserInput
    \/ AddAssistantResponse
    \/ AddToolExecution
    \/ AddSummary
    \/ StoreImportant

SpecPersistent == InitMemory /\ [][NextPersistent]_vars

\* a caller that records turns, saves the session and loads sessions
NextSession ==
    \/ Tick
    \/ Add
    \/ AddToolExecution
    \/ AddSummary
    \/ SaveSession
    \/ LoadSession

SpecSession == InitMemory /\ [][NextSession]_vars

\* the n of get_recent(n)
RecentCounts == 0..(MaxAdds + 1)

\* conversation_memory.get_recent(n)
GetRecent ==
    /\ \E n \in RecentCounts :
         /\ ret' = ConversationMemory_get_recent(conversation_memory, n)
         /\ call' = [op |-> "ConversationMemory.get_recent", n |-> n]
    /\ UNCHANGED <<mem_data, rest_vars>>

\* a caller that records entries and reads the most recent ones back
NextRecent ==
    \/ Add
    \/ AddSummary
    \/ Clear
    \/ GetRecent

SpecRecent == InitMemory /\ [][NextRecent]_vars

\* the texts remembered and searched for: the second holds eleven
\* keywords, one more than add indexes
SearchContents ==
    { <<"c", "a", "t", " ", "h", "i">>,
      <<"a", "a", " ", "b", "b", " ", "c", "c", " ", "d", "d", " ",
        "e", "e", " ", "f", "f", " ", "g", "g", " ", "h", "h", " ",
        "i", "i", " ", "j", "j", " ", "k", "k">>,
      <<"k", "k">> }

SearchImportances == {0, 5}

SearchQueries ==
    { <<"t", "h", "e">>,
      <<"h", "i", " ", "c", "a", "t", " ", "a", "a">>,
      <<"a", "a", " ", "k", "k">> }

SearchLimits == {0, 1, 10}

\* conversation_memory.add(content, "result", None, importance)
Remember ==
    /\ Len(history) < MaxNotes
    /\ \E content \in SearchContents, importance \in SearchImportances :
         LET r == ConversationMemory_add(conversation_memory, now, content,
                                         "result", <<>>, importance)
         IN  /\ conversation_memory' = r.cm
             /\ ret' = r.ret
             /\ history' = Append(history, r.entry)
             /\ call' = [op |-> "ConversationMemory.add",
                         importance |-> importance]
    /\ UNCHANGED <<cleared, now, session_id, persistent_memory, long_term_file,
                   session_files, saved_entries>>
    /\ UNCHANGED rest_vars

\* conversation_memory.semantic_search(query, limit)
SemanticSearch ==
    /\ call.op # "ConversationMemory.semantic_search"
    /\ \E query \in SearchQueries, limit \in SearchLimits :
         /\ ret' \in ConversationMemory_semantic_search(conversation_memory,
                                                        query, limit)
         /\ call' = [op |-> "ConversationMemory.semantic_search",
                     query |-> query, limit |-> limit]
    /\ UNCHANGED <<mem_data, rest_vars>>

\* a caller that records texts and searches them by keyword
NextSearch ==
    \/ Remember
    \/ SemanticSearch

\* a MemoryManager with room for at least one entry
InitSearch == InitMemory /\ conversation_memory.max_entries >= 1

SpecSearch == InitSearch /\ [][NextSearch]_vars

\* a caller that records texts, clears the memory and searches by keyword,
\* on a memory of any capacity
NextStaleSearch ==
    \/ Remember
    \/ Clear
    \/ SemanticSearch

SpecStaleSearch == InitMemory /\ [][NextStaleSearch]_vars

MemoryQueries == { <<"c", "a", "t">>, <<"f", "a", "c", "t">>, <<"c">> }

\* memory_manager.semantic_search_memory(query, limit)
SemanticSearchMemory ==
    /\ call.op # "MemoryManager.semantic_search_memory"
    /\ \E query \in MemoryQueries, limit \in SearchLimits :
         /\ ret' \in MemoryManager_semantic_search_memory(
                         conversation_memory, persistent_memory, query, limit)
         /\ call' = [op |-> "MemoryManager.semantic_search_memory",
                     query |-> query, limit |-> limit]
    /\ UNCHANGED <<mem_data, rest_vars>>

\* a caller that records turns and summaries, stores facts and searches
\* both memories
NextMemorySearch ==
    \/ AddUserInput
    \/ AddSummary
    \/ StoreImportant
    \/ SemanticSearchMemory

SpecMemorySearch == InitSearch /\ [][NextMemorySearch]_vars

\* memory_manager = MemoryManager(sid, max_conversation_entries),
\* constructed later than the calls so far, on the storage directory as
\* they have left it
Construct ==
    /\ now < MaxTime
    /\ now' = now + 1
    /\ \E sid \in SessionIds, max_conversation_entries \in 0..MaxCap :
         LET mm == MemoryManager_init(sid, max_conversation_entries, now',
                                      long_term_file, session_files)
         IN  /\ session_id' = mm.session_id
             /\ conversation_memory' = mm.conversation_memory
             /\ persistent_memory' = mm.persistent_memory
             /\ history' = mm.conversation_memory.entries
             /\ call' = [op |-> "MemoryManager.__init__", session_id |-> sid,
                         max_conversation_entries |->
                             max_conversation_entries]
    /\ cleared' = 0
    /\ ret' = <<>>
    /\ UNCHANGED <<long_term_file, session_files, saved_entries>>
    /\ UNCHANGED rest_vars

\* a caller that records entries, saves the session and starts again with
\* a new MemoryManager
NextContinuity ==
    \/ Add
    \/ AddSummary
    \/ SaveSession
    \/ Construct

SpecContinuity == InitMemory /\ [][NextContinuity]_vars

\* a caller that stores long-term entries and starts again with a new
\* MemoryManager on the same storage directory
NextLongTerm ==
    \/ StoreImportant
    \/ AddSummary
    \/ AddAssistantResponse
    \/ Clear
    \/ Construct

SpecLongTerm == InitMemory /\ [][NextLongTerm]_vars

(***************************************************************************)
(* Two MemoryManagers live on the same storage directory: each has its own *)
(* conversation memory and its own PersistentMemory, and both write        *)
(* memory/long_term.json and memory/sessions/<id>.json.  A call runs to    *)
(* its end before the next one starts.                                     *)
(***************************************************************************)
\* what the second manager stores
PeerStoreContents == { <<"p", "e", "e", "r">> }

\* peer = MemoryManager(sid, max_conversation_entries)
PeerConstruct ==
    /\ peer = <<>>
    /\ \E sid \in SessionIds, max_conversation_entries \in {MaxCap} :
         /\ peer' = <<MemoryManager_init(sid, max_conversation_entries, now,
                                         long_term_file, session_files)>>
         /\ call' = [op |-> "MemoryManager.__init__", by |-> "peer",
                     session_id |-> sid,
                     max_conversation_entries |-> max_conversation_entries]
    /\ ret' = <<>>
    /\ UNCHANGED <<mem_data, vec_vars, beside_peer>>

\* peer.persistent_memory.store_important(content, importance)
PeerStoreImportant ==
    /\ peer # <<>>
    /\ Len(peer[1].persistent_memory.long_term_entries) < MaxLongTerm
    /\ \E content \in PeerStoreContents, importance \in StoreImportances :
         LET r == PersistentMemory_store_important(
                      peer[1].persistent_memory, long_term_file, now,
                      content, importance)
         IN  /\ peer' = <<[peer[1] EXCEPT !.persistent_memory = r.pm]>>
             /\ long_term_file' = r.long_term_file
             /\ ret' = r.ret
             /\ call' = [op |-> "PersistentMemory.store_important",
                         by |-> "peer", importance |-> importance]
    /\ UNCHANGED <<cleared, now, session_id, conversation_memory,
                   persistent_memory, session_files, history, saved_entries>>
    /\ UNCHANGED <<vec_vars, beside_peer>>

\* peer.add_user_input(user_input)
PeerAddUserInput ==
    /\ peer # <<>>
    /\ Len(peer[1].conversation_memory.entries) < MaxCap
    /\ \E user_input \in PeerStoreContents :
         LET r == MemoryManager_add_user_input(peer[1].conversation_memory,
                                               now, user_input)
         IN  /\ peer' = <<[peer[1] EXCEPT !.conversation_memory = r.cm]>>
             /\ ret' = r.ret
             /\ call' = [op |-> "MemoryManager.add_user_input",
                         by |-> "peer"]
    /\ UNCHANGED <<mem_data, vec_vars, beside_peer>>

\* peer.save_session()
PeerSaveSession ==
    /\ peer # <<>>
    /\ session_files' = MemoryManager_save_session(
                            session_files, now, peer[1].session_id,
                            peer[1].conversation_memory)
    /\ saved_entries' = [saved_entries EXCEPT
                           ![peer[1].session_id] =
                               <<peer[1].conversation_memory.entries>>]
    /\ ret' = <<>>
    /\ call' = [op |-> "MemoryManager.save_session", by |-> "peer"]
    /\ UNCHANGED <<cleared, now, session_id, conversation_memory,
                   persistent_memory, long_term_file, history, peer>>
    /\ UNCHANGED <<vec_vars, beside_peer>>

\* two managers that store long-term entries, record entries and save
\* their sessions, their calls interleaved in any order
NextWriters ==
    \/ StoreImportant
    \/ AddUserInput
    \/ SaveSession
    \/ PeerConstruct
    \/ PeerStoreImportant
    \/ PeerAddUserInput
    \/ PeerSaveSession

InitWriters ==
    /\ InitMemory
    /\ conversation_memory.max_entries = MaxCap

SpecWriters == InitWriters /\ [][NextWriters]_vars

(***************************************************************************)
(* Searches over a conversation memory that was reloaded from a session    *)
(***************************************************************************)
\* the query of search(query)
SubstringQueries == { <<"C", "A", "T">>, <<"z", "z">> }

\* conversation_memory.search(query)
Search ==
    /\ call.op # "ConversationMemory.search"
    /\ \E query \in SubstringQueries :
         /\ ret' = ConversationMemory_search(conversation_memory, query)
         /\ call' = [op |-> "ConversationMemory.search", query |-> query]
    /\ UNCHANGED <<mem_data, rest_vars>>

\* a caller that records user inputs, saves the session, starts again
\* with a new MemoryManager and searches
NextReload ==
    \/ AddUserInput
    \/ SaveSession
    \/ Construct
    \/ SemanticSearch
    \/ Search

SpecReload == InitMemory /\ [][NextReload]_vars

(***************************************************************************)
(* Properties of the memory classes                                        *)
(***************************************************************************)
AddCalls ==
    {"ConversationMemory.add", "MemoryManager.add_user_input",
     "MemoryManager.add_assistant_response",
     "MemoryManager.add_tool_execution", "MemoryManager.add_summary"}

Entries == conversation_memory.entries

MaxEntries == conversation_memory.max_entries

LongTermEntries == persistent_memory.long_term_entries

\* the entries appended since the conversation memory was last empty
Live == SubSeq(history, cleared + 1, Len(history))

\* how many times x occurs in the sequence s
Occurrences(s, x) == Cardinality({i \in 1..Len(s) : s[i] = x})

\* s and t hold the same elements, each the same number of times
SameElements(s, t) ==
    /\ Len(s) = Len(t)
    /\ \A x \in Range(s) : Occurrences(s, x) = Occurrences(t, x)

\* C1 - capacity invariant: after every add call (add itself or one of the
\* add_user_input / add_assistant_response / add_tool_execution /
\* add_summary wrappers) returns, len(entries) <= max_entries, for any
\* capacity bound max_entries.
C1_CapacityInvariant ==
    call.op \in AddCalls => Len(Entries) <= MaxEntries

\* C2 - eviction correctness: once more entries were added than
\* max_entries, the surviving entries are exactly max_entries of the
\* entries added so far, their importances are the max_entries highest
\* of all the importances added, and an add that drops one of several
\* entries of equal importance drops the one that stood earlier in the
\* sequence before the sort.
C2_Survivors ==
    (call.op \in AddCalls /\ Len(Live) > MaxEntries) =>
        /\ Len(Entries) = MaxEntries
        /\ \A e \in Range(Entries) :
             Occurrences(Entries, e) <= Occurrences(Live, e)
        /\ SameElements(Importances(Entries),
                        FirstN(SortDescending(Importances(Live),
                                              Importances(Live)),
                               MaxEntries))

C2_TieOrder ==
    (call'.op \in AddCalls /\ Len(history') = Len(history) + 1) =>
        LET before == Append(Entries, history'[Len(history')])
            n == Len(before)
        IN  Len(conversation_memory'.entries) < n =>
              \E kept \in SUBSET (1..n) :
                 /\ SameElements(conversation_memory'.entries, SelectIdx(before, kept))
                 /\ \A i \in (1..n) \ kept : \A j \in kept :
                      \/ before[i].importance < before[j].importance
                      \/ /\ before[i].importance = before[j].importance
                         /\ i < j

C2_EvictionCorrectness == []C2_Survivors /\ [][C2_TieOrder]_vars

\* C3 - promotion threshold: store_important(content, importance) appends
\* a new entry to long_term_entries if and only if importance >= 0.8; below
\* 0.8 it returns the empty string and leaves long_term_entries and the
\* long-term file unchanged; and every entry of long_term_entries has
\* importance >= 0.8 after any sequence of store_important and
\* MemoryManager add_* calls on a store that started empty.
C3_AllImportant ==
    \A i \in 1..Len(LongTermEntries) : LongTermEntries[i].importance >= 8

C3_StoreStep ==
    call'.op = "PersistentMemory.store_important" =>
        IF call'.importance >= 8
        THEN /\ Len(persistent_memory'.long_term_entries)
                  = Len(LongTermEntries) + 1
             /\ FirstN(persistent_memory'.long_term_entries,
                       Len(LongTermEntries)) = LongTermEntries
             /\ persistent_memory'.long_term_entries[
                    Len(LongTermEntries) + 1].importance = call'.importance
             /\ ret' # <<>>
        ELSE /\ ret' = <<>>
             /\ persistent_memory' = persistent_memory
             /\ long_term_file' = long_term_file

C3_PromotionThreshold == []C3_AllImportant /\ [][C3_StoreStep]_vars

\* a store_important call below the threshold was refused on a store that
\* holds an entry, after an assistant response of more than 50 characters
\* was recorded
C3_Witness ==
    /\ call.op = "PersistentMemory.store_important"
    /\ call.importance < 8
    /\ ret = <<>>
    /\ LongTermEntries # <<>>
    /\ \E i \in 1..Len(history) :
         /\ history[i].type = "assistant"
         /\ Len(history[i].content) > 50

\* C4 - MemoryManager.add_assistant_response(response) with
\* len(response) > 50 makes long_term_entries grow by one entry, of
\* importance 0.7; with len(response) <= 50 it creates no long-term entry.
C4_AssistantPromotion ==
    [][call'.op = "MemoryManager.add_assistant_response" =>
         IF Len(call'.response) > 50
         THEN /\ Len(persistent_memory'.long_term_entries)
                   = Len(LongTermEntries) + 1
              /\ persistent_memory'.long_term_entries[
                     Len(LongTermEntries) + 1].importance = 7
         ELSE persistent_memory' = persistent_memory]_vars

\* C5 - session round-trip: load_session(id) after save_session(id, cm)
\* returns the entries cm held at save time, in the same order, each with
\* equal id, timestamp, type, content, metadata and importance (also when
\* entries had been evicted before the save); for an id never saved it
\* returns None.
C5_SessionRoundTrip ==
    call.op = "PersistentMemory.load_session" =>
        ret = saved_entries[call.session_id]

\* a session saved after an eviction, holding an entry with metadata, was
\* loaded
C5_Witness ==
    /\ call.op = "PersistentMemory.load_session"
    /\ ret # <<>>
    /\ Len(ret[1]) >= 2
    /\ Len(ret[1]) < Len(history)
    /\ \E i \in 1..Len(ret[1]) : ret[1][i].metadata # <<>>
    /\ \E i \in 1..Len(ret[1]) : ret[1][i].metadata = <<>>

(***************************************************************************)
(* Properties of the vector store and of the RAG system                    *)
(***************************************************************************)
\* x <= y on floats
FLessEq(x, y) == FLess(x, y) \/ FEq(x, y)

\* the last call was an add that raised
AddRaised == call.op = "InMemoryVectorStore.add" /\ raised # <<>>

\* C6: after any sequence of add and delete calls, add calls that raise
\* included, documents, embeddings, metadatas and ids have the same length
\* and every stored embedding has exactly dimension components.
C6_ShapeInvariant ==
    /\ Len(vector_store.documents) = Len(vector_store.embeddings)
    /\ Len(vector_store.embeddings) = Len(vector_store.metadatas)
    /\ Len(vector_store.metadatas) = Len(vector_store.ids)
    /\ \A i \in 1..Len(vector_store.embeddings) :
          Len(vector_store.embeddings[i]) = vector_store.dimension

\* an add has raised on a store that holds a document stored after a
\* delete
C6_Witness ==
    /\ AddRaised
    /\ vector_store.ids # <<>>
    /\ vector_store.ids[1] > 0

\* the embeddings handed to add, or those add computes, hold one whose
\* length is not the dimension of the store
HasMismatch(dimension, documents, embeddings) ==
    IF embeddings = <<>>
    THEN documents # <<>> /\ dimension # 26
    ELSE \E i \in 1..Len(embeddings[1]) : Len(embeddings[1][i]) # dimension

\* an add step with an embedding of the wrong length raises and leaves the
\* store as it was
C7_Rejected ==
    (/\ call'.op = "InMemoryVectorStore.add"
     /\ HasMismatch(vector_store.dimension, call'.documents,
                    call'.embeddings))
    => (/\ raised' = <<"ValueError">>
        /\ vector_store' = vector_store)

\* C7: if any embedding of a batch passed to add, or computed by it, has a
\* length other than dimension, add raises and the whole batch is
\* rejected: documents, embeddings, metadatas and ids are unchanged, even
\* when earlier embeddings of the batch had the right length.
C7_BatchRejectedWholesale == [][C7_Rejected]_vars

\* an add has raised, on a store that holds a document, on a batch of two
\* documents and two embeddings, the first of the right length and the
\* second not
C7_Witness ==
    /\ AddRaised
    /\ call.embeddings # <<>>
    /\ Len(call.embeddings[1]) = 2
    /\ Len(call.embeddings[1][1]) = vector_store.dimension
    /\ Len(call.embeddings[1][2]) # vector_store.dimension
    /\ Len(call.documents) = 2
    /\ vector_store.documents # <<>>

\* C8: after any sequence of add and delete calls, ids holds no duplicate
\* and is strictly increasing in insertion order.
C8_IdsStrictlyIncreasing ==
    \A i, j \in 1..Len(vector_store.ids) :
        i < j => vector_store.ids[i] < vector_store.ids[j]

\* the scores of the documents a query returned
ReturnedScores ==
    [i \in 1..Len(ret.relevant_documents) |-> ret.relevant_documents[i].score]

\* a largest element of a non-empty sequence of floats
Largest(s) ==
    CHOOSE m \in Range(s) : \A x \in Range(s) : ~FLess(m, x)

\* x clamped to [0, 1]
Clamp(x) ==
    IF FLess(x, Float(0)) THEN Float(0)
    ELSE IF FLess(Float(1), x) THEN Float(1) ELSE x

\* C9: for any store contents, question, k and filter, query returns a
\* confidence in [0.0, 1.0]; when at least one document is retrieved the
\* confidence is (max score + mean score) / 2 over the retrieved hits,
\* clamped to [0, 1].
C9_ConfidenceBounds ==
    call.op = "RAGSystem.query" =>
        /\ FLessEq(Float(0), ret.confidence)
        /\ FLessEq(ret.confidence, Float(1))
        /\ ret.relevant_documents # <<>> =>
              ret.confidence =
                  Clamp(FDiv(FAdd(Largest(ReturnedScores),
                                  FDiv(FSum(ReturnedScores),
                                       Float(Len(ReturnedScores)))),
                             Float(2)))

\* metadata has every item of the filter
Satisfies(metadata, filter) ==
    \A item \in Range(filter) : \E m \in Range(metadata) : m = item

\* the query just made cannot retrieve a document: the store is empty, no
\* metadata satisfies its filter, or it asks for no document
NothingToRetrieve ==
    \/ vector_store.documents = <<>>
    \/ /\ call.filter # <<>>
       /\ call.filter # << <<>> >>
       /\ \A i \in 1..Len(vector_store.metadatas) :
             ~Satisfies(vector_store.metadatas[i], call.filter[1])
    \/ call.k = 0

\* C10: when retrieval returns no document (empty store, or a filter that
\* no metadata satisfies), query returns, without raising and without
\* invoking the generation capability, the fixed no-information answer,
\* an empty context, relevant_documents == [] and confidence 0.0.
C10_SoftMiss ==
    (call.op = "RAGSystem.query" /\ NothingToRetrieve) =>
        /\ raised = <<>>
        /\ invoked = <<>>
        /\ ret.answer = NoInformationAnswer
        /\ ret.context = <<>>
        /\ ret.relevant_documents = <<>>
        /\ ret.confidence = Float(0)

\* a RAG system with a generation capability was asked for documents with
\* a filter that none of the stored documents satisfies
C10_Witness ==
    /\ call.op = "RAGSystem.query"
    /\ llm # <<>>
    /\ call.k > 0
    /\ vector_store.documents # <<>>
    /\ call.filter # <<>>
    /\ \A i \in 1..Len(vector_store.metadatas) :
          ~Satisfies(vector_store.metadatas[i], call.filter[1])
    /\ ret.answer = NoInformationAnswer

\* the vector has a component other than 0
NonZero(v) == \E i \in 1..Len(v) : ~FEq(v[i], Float(0))

\* C11, the result on a zero vector: the similarity is 0 when either
\* vector has zero norm
C11_ZeroNorm ==
    call.op = "_cosine_similarity" /\ (~NonZero(call.a) \/ ~NonZero(call.b))
        => ret = Float(0)

\* C11, the example: two texts with the letters of "hello" have
\* similarity 1.0
C11_Hello ==
    LET hello == List(SimpleEmbedding_embed(<<"h", "e", "l", "l", "o">>))
    IN  call.op = "_cosine_similarity" /\ call.a = hello /\ call.b = hello
            => ret = Float(1)

\* C11: the similarity of two non-zero vectors of equal length lies in
\* [-1, 1], the similarity of a non-zero vector with itself is 1.0, and the
\* similarity is 0 when either vector has zero norm
C11_CosineBounds ==
    call.op = "_cosine_similarity" =>
        /\ Len(call.a) = Len(call.b) /\ NonZero(call.a) /\ NonZero(call.b)
               => FLessEq(Float(-1), ret) /\ FLessEq(ret, Float(1))
        /\ NonZero(call.a) /\ call.b = call.a => ret = Float(1)
        /\ C11_ZeroNorm

\* s can be read in t from left to right: the elements of s stand in t in
\* the order they have in s
IsSubsequence(s, t) ==
    \E f \in [1..Len(s) -> 1..Len(t)] :
        /\ \A i \in 1..Len(s) : t[f[i]] = s[i]
        /\ \A i, j \in 1..Len(s) : i < j => f[i] < f[j]

\* the entries of s of importance v, in the order they have in s
OfImportance(s, v) ==
    SelectIdx(s, {i \in 1..Len(s) : s[i].importance = v})

\* C12 as stated - recency order: after every add call, evicting or not,
\* entries holds the surviving entries in the order they were added in,
\* the one added earlier before the one added later
C12_InsertionOrder ==
    call.op \in AddCalls => IsSubsequence(Entries, Live)

C12_AddStep ==
    call'.op \in AddCalls =>
        LET appended == Append(Entries, history'[Len(history')])
            after == conversation_memory'.entries
        IN  IF Len(appended) <= MaxEntries THEN after = appended
            ELSE /\ \A i, j \in 1..Len(after) :
                      i < j => after[i].importance <= after[j].importance
                 /\ \A i \in 1..Len(after) :
                      IsSubsequence(
                          OfImportance(after, after[i].importance),
                          OfImportance(appended, after[i].importance))

\* C12 - order of the entries: an add call that stays within max_entries
\* appends the new entry after the others, which keep their order; an add
\* call that exceeds max_entries leaves the entries in non-decreasing
\* importance order, those of equal importance in the order they had
C12_ImportanceOrder == [][C12_AddStep]_vars

\* an add call has evicted an entry and left an entry added later before
\* one added earlier
C12_Witness ==
    /\ call.op \in AddCalls
    /\ MaxEntries >= 1
    /\ Len(Live) > Len(Entries)
    /\ ~IsSubsequence(Entries, Live)

\* C13 - get_recent size: get_recent(n) returns the last min(n, len(entries))
\* elements of entries, in their stored order
C13_GetRecentSize ==
    call.op = "ConversationMemory.get_recent" =>
        ret = SubSeq(Entries, Len(Entries) - Min(call.n, Len(Entries)) + 1,
                     Len(Entries))

\* the score C14 gives an entry: its importance times the sum of
\* len(keyword) + 1 over the query keywords (at most 5) that are among the
\* entry's own top-20 keywords
C14_Score(entry, query) ==
    LET query_keywords == _extract_keywords(query, 5)
        entry_keywords == Range(_extract_keywords(entry.content, 20))
        weights == [i \in 1..Len(query_keywords) |->
                       IF query_keywords[i] \in entry_keywords
                       THEN Len(query_keywords[i]) + 1 ELSE 0]
    IN  FMul(Float(SumInts(weights)),
             FDiv(Float(entry.importance), Float(10)))

\* C14, order and size: at most limit pairs, every score > 0, the scores
\* in non-increasing order, and nothing for a query without keywords
C14_Ranking ==
    call.op = "ConversationMemory.semantic_search" =>
        /\ Len(ret) <= call.limit
        /\ \A i \in 1..Len(ret) : FLess(Float(0), ret[i][2])
        /\ \A i, j \in 1..Len(ret) : i < j => FLessEq(ret[j][2], ret[i][2])
        /\ _extract_keywords(call.query, 5) = <<>> => ret = <<>>

\* C14 - semantic_search ranking: at most limit (entry, score) pairs, each
\* score the entry's importance times the sum of len(keyword) + 1 over the
\* query keywords among the entry's own top-20 keywords, every score > 0,
\* the scores in non-increasing order; a query with no keywords returns
\* the empty list
C14_SemanticSearchRanking ==
    call.op = "ConversationMemory.semantic_search" =>
        /\ C14_Ranking
        /\ \A i \in 1..Len(ret) :
              ret[i][2] = C14_Score(ret[i][1], call.query)

\* the ids of the pairs of a result
ResultIds(pairs) == [i \in 1..Len(pairs) |-> pairs[i][1].id]

\* the pair is a long-term entry containing the query, scored five times
\* its importance
LongTermHit(pair, query) ==
    /\ \E i \in 1..Len(LongTermEntries) : LongTermEntries[i] = pair[1]
    /\ Contains(Lower(pair[1].content), Lower(query))
    /\ pair[2] = FMul(FDiv(Float(pair[1].importance), Float(10)), Float(5))

\* C15 - cross-tier merge: semantic_search_memory returns at most limit
\* pairs in non-increasing score order; a pair is a hit of semantic_search
\* with the score semantic_search gave it, or a long-term substring match
\* whose id is not among those hits, with score importance * 5.0; no id
\* appears twice
C15_CrossTierMerge ==
    call.op = "MemoryManager.semantic_search_memory" =>
        /\ Len(ret) <= call.limit
        /\ \A i, j \in 1..Len(ret) : i < j => FLessEq(ret[j][2], ret[i][2])
        /\ \A i, j \in 1..Len(ret) : i # j => ret[i][1].id # ret[j][1].id
        /\ \E hits \in ConversationMemory_semantic_search(
                           conversation_memory, call.query, call.limit) :
              \A i \in 1..Len(ret) :
                  \/ \E h \in 1..Len(hits) : hits[h] = ret[i]
                  \/ /\ ret[i][1].id \notin Range(ResultIds(hits))
                     /\ LongTermHit(ret[i], call.query)

\* a search has returned a conversation hit and a long-term match, the
\* long-term match first
C15_Witness ==
    /\ call.op = "MemoryManager.semantic_search_memory"
    /\ Len(ret) >= 2
    /\ ret[1][1].type = "persistent"
    /\ \E i \in 2..Len(ret) : ret[i][1].type # "persistent"

\* the entries of the snapshot saved for the session id, none if no
\* snapshot was saved
Snapshot(sid) ==
    IF saved_entries[sid] = <<>> THEN <<>> ELSE saved_entries[sid][1]

\* C16, construction: a MemoryManager constructed for a session id holds
\* the entries of the snapshot saved for it, in saved order, and no entry
\* at all when no snapshot was saved
C16_Constructed ==
    call.op = "MemoryManager.__init__" =>
        /\ Entries = Snapshot(call.session_id)
        /\ session_id = call.session_id

\* the conversation memory started from a snapshot: the first entry it
\* received is older than the memory itself
StartedFromSnapshot ==
    /\ history # <<>>
    /\ history[1].timestamp < conversation_memory.session_start

Generated ==
    /\ call.op = "RAGSystem.query"
    /\ llm # <<>>
    /\ ret.relevant_documents # <<>>

\* the text of a response: its content attribute, else its 'content' key,
\* else its string form
ResponseText(response) ==
    IF response.attribute # <<>> THEN response.attribute[1]
    ELSE IF response.mapping # <<>>
            /\ \E i \in 1..Len(response.mapping[1]) :
                  response.mapping[1][i][1] = ContentKey
    THEN LET d == response.mapping[1]
         IN  d[CHOOSE i \in 1..Len(d) : d[i][1] = ContentKey][2]
    ELSE response.string

\* the answer made of the count of documents, the first 500 characters of
\* the context, and the message of the exception
ExcerptPlusError(result, message) ==
    AnswerHead \o str_int(Len(result.relevant_documents)) \o AnswerCount
    \o SubSeq(result.context, 1, Min(500, Len(result.context)))
    \o AnswerFailedTail \o message \o <<"\n">>

\* C17 - generation failure is degraded, not propagated: when llm.invoke
\* raises, query raises nothing and returns the templated excerpt-plus-
\* error answer with the context, relevant_documents and confidence of a
\* query whose generation succeeds; when invoke succeeds the answer is
\* the stripped text of the response's content attribute, else of its
\* 'content' key, else of its string form
C17_GenerationDegraded ==
    Generated =>
        IF call.response.raises # <<>>
        THEN /\ raised = <<>>
             /\ ret.answer = ExcerptPlusError(ret, call.response.raises[1])
             /\ ret.question = call.question
             /\ \E r \in RAGSystem_query(vector_store, llm, call.question,
                                         call.k, call.filter,
                                         StrResponse(Ok)) :
                   /\ r.ret.context = ret.context
                   /\ r.ret.relevant_documents = ret.relevant_documents
                   /\ r.ret.confidence = ret.confidence
                   /\ r.invoked = invoked
        ELSE /\ raised = <<>>
             /\ ret.answer = Strip(ResponseText(call.response))

\* a query that retrieved two documents and whose generation raised
C17_Witness ==
    /\ Generated
    /\ call.response.raises # <<>>
    /\ Len(ret.relevant_documents) = 2

\* the metadata equals the filter on every key of the filter
MatchesFilter(metadata, filter) ==
    filter = <<>> \/
    \A f \in 1..Len(filter[1]) :
        \E m \in 1..Len(metadata) : metadata[m] = filter[1][f]

\* the positions of the store whose metadata matches the filter
Matching(vs, filter) ==
    {i \in 1..Len(vs.documents) : MatchesFilter(vs.metadatas[i], filter)}

\* the score of the stored entry at position i for the query
ScoreOf(vs, query, i) ==
    _cosine_similarity(SimpleEmbedding_embed(query), vs.embeddings[i])

\* the results are the stored entries at the positions chosen[1],
\* chosen[2], ..., with their scores
ResultsAre(vs, query, results, chosen) ==
    \A p \in 1..Len(results) :
        /\ results[p].document = vs.documents[chosen[p]]
        /\ results[p].metadata = vs.metadatas[chosen[p]]
        /\ results[p].score = ScoreOf(vs, query, chosen[p])

\* results is a top-k answer to the query on the store
TopK(vs, query, k, filter, results) ==
    LET matching == Matching(vs, filter)
        n == Len(results)
    IN  /\ n = Min(k, Cardinality(matching))
        /\ \A p \in 1..n : MatchesFilter(results[p].metadata, filter)
        /\ \A p, q \in 1..n :
              p < q => ~FLess(results[p].score, results[q].score)
        /\ \E chosen \in [1..n -> matching] :
              /\ \A p, q \in 1..n : p # q => chosen[p] # chosen[q]
              /\ ResultsAre(vs, query, results, chosen)
              /\ \A o \in matching \ Range(chosen), p \in 1..n :
                    ~FLess(results[p].score, ScoreOf(vs, query, o))

\* C18 - similarity_search top-k: similarity_search(query, k, filter)
\* returns min(k, number of stored entries matching the filter) results,
\* each matching the filter, in non-increasing score order, no stored
\* entry outside the result scoring strictly higher than one inside it,
\* and it leaves the store unchanged
C18_TopKStep ==
    call'.op = "InMemoryVectorStore.similarity_search" =>
        /\ vector_store' = vector_store
        /\ TopK(vector_store, call'.query, call'.k, call'.filter, ret')

C18_SimilaritySearchTopK == [][C18_TopKStep]_vars

\* the same for the stores none of whose scores is NaN
C18_TopKStepNumbers ==
    (\A i \in 1..Len(vector_store.embeddings) :
         NaN \notin Range(vector_store.embeddings[i])) => C18_TopKStep

C18_TopKOfNumbers == [][C18_TopKStepNumbers]_vars

\* the entry of a store at position i: its id with the document, the
\* embedding and the metadata it is paired with
EntryAt(vs, i) ==
    <<vs.ids[i], vs.documents[i], vs.embeddings[i], vs.metadatas[i]>>

\* after is what is left of before when exactly the entries whose id is
\* in S are removed: from[p] is the position before of the entry at
\* position p after
RemovedExactly(before, after, S) ==
    LET n == Len(after.ids)
        kept == {i \in 1..Len(before.ids) : before.ids[i] \notin S}
    IN  /\ Len(after.documents) = n
        /\ Len(after.embeddings) = n
        /\ Len(after.metadatas) = n
        /\ \E from \in [1..n -> 1..Len(before.ids)] :
              /\ \A p, q \in 1..n : p < q => from[p] < from[q]
              /\ {from[p] : p \in 1..n} = kept
              /\ \A p \in 1..n : EntryAt(after, p) = EntryAt(before, from[p])

\* C19 - delete in lockstep: delete(S) removes exactly the entries whose
\* id is in S, every remaining entry keeps its id, document, embedding
\* and metadata, the remaining entries keep their relative order, and ids
\* that are not in the store are ignored without an error
C19_DeleteStep ==
    call'.op = "InMemoryVectorStore.delete" =>
        /\ RemovedExactly(vector_store, vector_store', Range(call'.ids))
        /\ raised' = <<>>

C19_DeleteInLockstep == [][C19_DeleteStep]_vars

\* a delete of one present id and one absent id took the first of three
\* entries out of the store
C19_Witness ==
    /\ call.op = "InMemoryVectorStore.delete"
    /\ call.ids = <<0, 7>>
    /\ Len(vector_store.ids) = 2
    /\ vector_store.ids = <<1, 2>>
    /\ vector_store.documents[1] # vector_store.documents[2]

\* s is the beginning of t
IsPrefix(s, t) == Len(s) <= Len(t) /\ SubSeq(t, 1, Len(s)) = s

\* C20 - long-term persistence: after every call the long-term file
\* holds exactly the current long_term_entries, so that a
\* PersistentMemory constructed on the same storage directory starts with
\* the same entries in the same order; and no call removes or changes a
\* long-term entry
C20_LongTermStep ==
    /\ PersistentMemory_init(long_term_file').long_term_entries
           = LongTermEntries'
    /\ IsPrefix(LongTermEntries, LongTermEntries')
    /\ call'.op = "MemoryManager.__init__" =>
           LongTermEntries' = LongTermEntries

C20_LongTermPersistence == [][C20_LongTermStep]_vars

\* a MemoryManager was constructed on a storage directory holding the two
\* long-term entries an earlier one stored
C20_Witness ==
    /\ call.op = "MemoryManager.__init__"
    /\ Len(LongTermEntries) = 2
    /\ \A i \in 1..2 : LongTermEntries[i].timestamp < now
    /\ LongTermEntries[1] # LongTermEntries[2]

\* the last call was made by the second manager
ByPeer == "by" \in DOMAIN call

\* the entries a PersistentMemory constructed now would start with
OnDisk == _load_long_term(long_term_file)

\* C21 - concurrent writers race on the shared files, the last writer
\* wins: a store_important call that stores an entry leaves in the
\* long-term file the list the calling instance held before the call
\* followed by the new entry, whatever the file held and whatever the
\* other instance has stored; a save_session call leaves in the session
\* file exactly the snapshot of the manager that made the call
C21_WriteStep ==
    /\ (call'.op = "PersistentMemory.store_important" /\ ret' # <<>>) =>
           LET before == IF "by" \in DOMAIN call'
                         THEN peer[1].persistent_memory.long_term_entries
                         ELSE persistent_memory.long_term_entries
           IN  /\ Len(OnDisk') = Len(before) + 1
               /\ SubSeq(OnDisk', 1, Len(before)) = before
               /\ OnDisk'[Len(OnDisk')].id = ret'
    /\ call'.op = "MemoryManager.save_session" =>
           LET writer == IF "by" \in DOMAIN call'
                         THEN peer[1]
                         ELSE [session_id |-> session_id,
                               conversation_memory |-> conversation_memory]
           IN  PersistentMemory_load_session(session_files',
                                             writer.session_id)
                   = <<writer.conversation_memory.entries>>

C21_LastWriterWins == [][C21_WriteStep]_vars

\* both managers are live, each has stored a long-term entry and saved
\* a snapshot under the same session id; the long-term file is without
\* the entry the first manager stored, and the session file is without
\* the entry the first manager saved
C21_Witness ==
    /\ peer # <<>>
    /\ peer[1].session_id = session_id
    /\ call.op = "MemoryManager.save_session" /\ ByPeer
    /\ persistent_memory.long_term_entries # <<>>
    /\ \E i \in 1..Len(persistent_memory.long_term_entries) :
          persistent_memory.long_term_entries[i] \notin Range(OnDisk)
    /\ OnDisk # <<>>
    /\ Entries # <<>>
    /\ session_files[session_id] # <<>>
    /\ \A i \in 1..Len(Entries) :
          Entries[i] \notin
              Range(PersistentMemory_load_session(session_files,
                                                  session_id)[1])

SemanticIndex == conversation_memory.semantic_index

\* the ids the semantic index holds in some bucket
IndexedIds == UNION {SemanticIndex[k] : k \in DOMAIN SemanticIndex}

\* the ids of the entries
EntryIds == {Entries[i].id : i \in 1..Len(Entries)}

\* C22 - stale inverted index: no call removes a keyword or an id from
\* semantic_index; clear() empties entries and leaves semantic_index as it
\* was; an add puts the id of the new entry in the bucket of each of its
\* keywords, where it stays when the entry is evicted
C22_IndexStep ==
    /\ DOMAIN SemanticIndex \subseteq DOMAIN SemanticIndex'
    /\ \A k \in DOMAIN SemanticIndex : SemanticIndex[k] \subseteq SemanticIndex'[k]
    /\ call'.op = "ConversationMemory.clear" =>
           /\ Entries' = <<>>
           /\ SemanticIndex' = SemanticIndex
    /\ call'.op \in AddCalls =>
           \E entry \in {history'[Len(history')]} :
              \E words \in {_extract_keywords(entry.content, 10)} :
                 \A i \in 1..Len(words) :
                    /\ words[i] \in DOMAIN SemanticIndex'
                    /\ entry.id \in SemanticIndex'[words[i]]

C22_StaleIndex == [][C22_IndexStep]_vars

\* after an eviction, and with no clear so far, the index holds an id
\* that no entry has
C22_Witness ==
    /\ call.op \in AddCalls
    /\ cleared = 0
    /\ Len(history) > Len(Entries)
    /\ Entries # <<>>
    /\ IndexedIds \ EntryIds # {}

\* the entries the conversation memory loaded from a session when its
\* manager was constructed: they are older than the memory itself
LoadedEntries ==
    SelectIdx(Entries, {i \in 1..Len(Entries) :
                           Entries[i].timestamp
                               < conversation_memory.session_start})

\* C23 - session-loaded history bypasses indexing: the ids of the entries
\* loaded from a session are in no bucket of semantic_index, so
\* semantic_search returns none of them whatever the query, while
\* search(query) returns every entry whose content holds the query,
\* loaded or not
C23_LoadedNotIndexed ==
    /\ {LoadedEntries[i].id : i \in 1..Len(LoadedEntries)}
           \cap IndexedIds = {}
    /\ call.op = "ConversationMemory.semantic_search" =>
           \A i \in 1..Len(ret) : ret[i][1] \notin Range(LoadedEntries)
    /\ call.op = "ConversationMemory.search" =>
           \A i \in 1..Len(LoadedEntries) :
               (\E j \in 1..(Len(LoadedEntries[i].content)
                                 - Len(call.query) + 1) :
                    SubSeq(Lower(LoadedEntries[i].content), j,
                           j + Len(call.query) - 1) = Lower(call.query))
                   => LoadedEntries[i] \in Range(ret)

\* semantic_search for the keyword of a loaded entry returned nothing
C23_Witness ==
    /\ call.op = "ConversationMemory.semantic_search"
    /\ call.query = <<"h", "i", " ", "c", "a", "t", " ", "a", "a">>
    /\ call.limit = 10
    /\ LoadedEntries # <<>>
    /\ LoadedEntries[1].content = <<"T", "h", "e", " ", "c", "a", "t">>
    /\ ret = <<>>

\* C24 - TF-IDF embedding: embed(text) returns, for every text, a vector
\* as long as the vocabulary, with 0.0 at the index of every vocabulary
\* token that is not in the text and a term-frequency times inverse-
\* document-frequency value at the index of every one that is
C24_TFIDFEmbedding ==
    call.op = "TFIDFEmbedding.embed" =>
        /\ raised = <<>>
        /\ Len(ret) = Len(tfidf[1].vocabulary)
        /\ \A i \in 1..Len(tfidf[1].vocabulary) :
              LET token == tfidf[1].vocabulary[i][1]
                  index == tfidf[1].vocabulary[i][2]
              IN  token \notin Range(_tokenize(call.text))
                      => ret[index + 1] = Float(0)

\* embed raises exactly when the text holds a token of the vocabulary,
\* and returns a vector of zeros otherwise; doc_count stays 0
C24_RaisesOnVocabularyToken ==
    /\ tfidf # <<>> => tfidf[1].doc_count = 0
    /\ call.op = "TFIDFEmbedding.embed" =>
          IF \E i \in 1..Len(tfidf[1].vocabulary) :
                tfidf[1].vocabulary[i][1] \in Range(_tokenize(call.text))
          THEN raised = <<"ValueError">>
          ELSE /\ raised = <<>>
               /\ ret = [i \in 1..Len(tfidf[1].vocabulary) |-> Float(0)]

\* the documents as save writes them: the dictionary form of every document
\* that has to_dict, the others as they are
SavedForm(documents) ==
    [i \in 1..Len(documents) |->
        IF HasToDict(documents[i]) THEN Document_to_dict(documents[i])
        ELSE documents[i]]

\* the lists of scores similarity_search can return
ScoreLists(vs, query, k, filter) ==
    {[p \in 1..Len(results) |-> results[p].score] :
        results \in similarity_search(vs, query, k, filter)}

\* C25 - Vector store save/load round trip: after save(path) and
\* load(path) into a store, the ids, the embeddings, the metadatas and the
\* dimension are those at save time and similarity_search returns the same
\* scores in the same order as before the save; what the loading store
\* held is replaced; the documents that have to_dict come back in their
\* dictionary form, which get_stats counts no characters for
C25_SaveLoadRoundTrip ==
    (call.op = "InMemoryVectorStore.load" /\ raised = <<>>) =>
        \E saved \in {saved_store[1]} :
            /\ vector_store.ids = saved.ids
            /\ vector_store.embeddings = saved.embeddings
            /\ vector_store.metadatas = saved.metadatas
            /\ vector_store.dimension = saved.dimension
            /\ vector_store.documents = SavedForm(saved.documents)
            /\ \A i \in 1..Len(vector_store.documents) :
                  HasToDict(saved.documents[i])
                      => /\ vector_store.documents[i] # saved.documents[i]
                         /\ vector_store.documents[i].class = "dict"
            /\ InMemoryVectorStore_get_stats(vector_store).total_characters
                   = 0
            /\ \A query \in Questions, filter \in Filters :
                  ScoreLists(vector_store, query, MaxStored + 1, filter)
                      = ScoreLists(saved, query, MaxStored + 1, filter)

\* a store of another dimension and other ids loaded a file saved from a
\* store that held a Document with content
C25_Witness ==
    /\ call.op = "InMemoryVectorStore.load"
    /\ raised = <<>>
    /\ call.before.ids # <<>>
    /\ call.before.ids # saved_store[1].ids
    /\ call.before.dimension # saved_store[1].dimension
    /\ \E i \in 1..Len(saved_store[1].documents) :
          HasToDict(saved_store[1].documents[i])
    /\ InMemoryVectorStore_get_stats(saved_store[1]).total_characters > 0
    /\ InMemoryVectorStore_get_stats(vector_store).total_characters = 0
    /\ vector_store.ids = saved_store[1].ids

\* s without its element at position i
Without(s, i) == SubSeq(s, 1, i - 1) \o SubSeq(s, i + 1, Len(s))

\* an add call on a memory at capacity: the new entry is the last of
\* history'
AddAtCapacity ==
    /\ call'.op \in AddCalls
    /\ Len(history') = Len(history) + 1
    /\ Len(Entries) = MaxEntries

\* what C26 says of one add call on a memory at capacity
SelfEviction ==
    \E entry \in {history'[Len(history')]} :
       /\ (\A i \in 1..Len(Entries) :
              entry.importance < Entries[i].importance)
          => /\ ret' = entry.id
             /\ \E words \in {_extract_keywords(entry.content, 10)} :
                   \A i \in 1..Len(words) :
                      /\ words[i] \in DOMAIN SemanticIndex'
                      /\ entry.id \in SemanticIndex'[words[i]]
             /\ entry \notin Range(Entries')
       /\ (/\ \E i \in 1..Len(Entries) :
                 entry.importance = Entries[i].importance
           /\ \A i \in 1..Len(Entries) :
                 entry.importance <= Entries[i].importance)
          => /\ ret' = entry.id
             /\ entry \in Range(Entries')
             /\ \E i \in 1..Len(Entries) :
                   /\ Entries[i].importance = entry.importance
                   /\ \A j \in 1..(i - 1) :
                         Entries[j].importance # entry.importance
                   /\ SameElements(Entries', Append(Without(Entries, i),
                                                    entry))

\* C26 - add can evict the entry it just created: on a memory at capacity,
\* an add with an importance strictly lower than that of every stored
\* entry returns the id of the new entry and indexes it, and the new entry
\* is not in entries after the call; an add whose importance ties with the
\* lowest stored importance evicts the earliest stored entry of that
\* importance, and the new entry stays
C26_Step == AddAtCapacity => SelfEviction

C26_SelfEviction == [][C26_Step]_vars

\* the same for a capacity of at least 1
C26_StepPositive == (AddAtCapacity /\ MaxEntries >= 1) => SelfEviction

C26_SelfEvictionPositive == [][C26_StepPositive]_vars

\* a memory of capacity 0 holds the entry that was just added
C26_KeptAtZero ==
    [][(AddAtCapacity /\ MaxEntries = 0) =>
          Entries' = Append(Entries, history'[Len(history')])]_vars

\* the ids indexed under a keyword of the query
MatchedIds(query) ==
    UNION {SemanticIndex[k] :
              k \in Range(_extract_keywords(query, 5)) \cap DOMAIN SemanticIndex}

\* C27 - semantic_search never surfaces removed entries: whatever adds,
\* evictions and clears came before, every entry semantic_search returns
\* is not None and is in entries at the time of the call, although
\* semantic_index may hold ids that no entry has; after a clear with no
\* add since, semantic_search returns the empty list for every query
C27_NoRemovedEntries ==
    call.op = "ConversationMemory.semantic_search" =>
        /\ \A p \in 1..Len(ret) :
              /\ ret[p][1] # <<>>
              /\ ret[p][1] \in Range(Entries)
        /\ cleared = Len(history) => ret = <<>>

\* a search that matched the id of an entry no longer stored and returned
\* a stored entry
C27_Witness ==
    /\ call.op = "ConversationMemory.semantic_search"
    /\ MatchedIds(call.query) \ EntryIds # {}
    /\ ret # <<>>

\* a search after a clear, on an index that still holds ids
C27_WitnessCleared ==
    /\ call.op = "ConversationMemory.semantic_search"
    /\ cleared = Len(history)
    /\ cleared > 0
    /\ MatchedIds(call.query) # {}
    /\ ret = <<>>

\* the entries an add call leaves when it trims to max_entries by
\* importance: the max_entries highest importances of the entries before
\* the call and the new entry
TrimmedByImportance ==
    \E before \in {Append(Entries, history'[Len(history')])} :
       /\ Len(Entries') = MaxEntries
       /\ \A e \in Range(Entries') :
             Occurrences(Entries', e) <= Occurrences(before, e)
       /\ SameElements(Importances(Entries'),
                       FirstN(SortDescending(Importances(before),
                                             Importances(before)),
                              MaxEntries))

\* construction takes the whole snapshot, and a call that is not an add
\* leaves an oversized memory as it is
LoadedUntrimmed ==
    /\ call'.op = "MemoryManager.__init__" =>
          /\ Entries' = Snapshot(call'.session_id)
          /\ Len(Snapshot(call'.session_id)) > MaxEntries'
                 => Len(Entries') > MaxEntries'
    /\ (Len(Entries) > MaxEntries /\ call'.op = "MemoryManager.save_session")
          => Entries' = Entries

\* the memory holds the snapshot it was constructed with and nothing was
\* added to it since
FreshlyLoaded ==
    /\ history # <<>>
    /\ Entries = history
    /\ \A i \in 1..Len(history) :
          history[i].timestamp < conversation_memory.session_start

\* the first add call on a memory that was constructed with more than
\* max_entries entries
AddOnOversized ==
    /\ call'.op \in AddCalls
    /\ Len(history') = Len(history) + 1
    /\ FreshlyLoaded
    /\ Len(Entries) > MaxEntries

\* C28 - session reload does not enforce capacity: construction extends
\* entries with the whole snapshot, so with a snapshot of more than
\* max_conversation_entries entries len(entries) exceeds max_entries from
\* construction until the next add call, and that add call trims entries
\* to max_entries by importance
C28_Step ==
    /\ LoadedUntrimmed
    /\ AddOnOversized => TrimmedByImportance

C28_ReloadUntrimmed == [][C28_Step]_vars

\* the same, the add call trimming when max_entries is at least 1
C28_StepPositive ==
    /\ LoadedUntrimmed
    /\ (AddOnOversized /\ MaxEntries >= 1) => TrimmedByImportance

C28_ReloadUntrimmedPositive == [][C28_StepPositive]_vars

\* with max_entries = 0 the add call trims nothing
C28_GrowsAtZero ==
    [][(AddOnOversized /\ MaxEntries = 0)
          => SameElements(Entries',
                          Append(Entries, history'[Len(history')]))]_vars

\* the events of the call of run under way
Events == agent[1].events

\* the positions of the events of a kind
EventsOf(kind) == {p \in 1..Len(Events) : Events[p][1] = kind}

\* the positions of one turn of the loop: from its mark to the event
\* before the next mark, or to the last event
TurnOf(p) ==
    {q \in p..Len(Events) :
        \A m \in EventsOf("iteration") : m > p => q < m}

\* the type of the entry each call on the memory manager appends
AddedTypes ==
    LET adds == {p \in 1..Len(Events) :
                    Events[p][1] \in {"add_user_input", "add_tool_execution",
                                      "add_assistant_response"}}
    IN  [i \in 1..Cardinality(adds) |->
            IF Events[Nth(adds, i)][1] = "add_user_input" THEN "user"
            ELSE IF Events[Nth(adds, i)][1] = "add_tool_execution"
            THEN "tool" ELSE "assistant"]

\* C29 - agent run persistence protocol: run(task) records the user input
\* before the first call of the language model; every turn of the loop in
\* which a tool was executed records exactly one tool execution, the
\* second one when the tool was executed again after a correction and the
\* first one otherwise, and a turn without execution records none; the
\* assistant response is recorded, and the session saved right after it,
\* only when a final answer was parsed, and run then returns the answer;
\* when max_iterations is exhausted run returns the fixed message and has
\* recorded no assistant response and saved no session
C29_RunProtocol ==
    agent # <<>> =>
        /\ Events[1] = <<"add_user_input", agent[1].task>>
        /\ EventsOf("add_user_input") = {1}
        /\ history[1].type = "user" /\ history[1].content = agent[1].task
        /\ [i \in 1..Len(history) |-> history[i].type] = AddedTypes
        /\ \A p \in EventsOf("iteration") :
              \E executed \in {{q \in TurnOf(p) : Events[q][1] = "tool"}},
                 recorded \in {{q \in TurnOf(p) :
                                  Events[q][1] = "add_tool_execution"}} :
                 IF executed = {} THEN recorded = {}
                 ELSE /\ Cardinality(recorded) = 1
                      /\ Cardinality(executed) <= 2
                      /\ \A q \in recorded, last \in executed :
                            (\A e \in executed : e <= last)
                                => /\ last < q
                                   /\ Tail(Events[q]) = Tail(Events[last])
        /\ \A p \in EventsOf("add_assistant_response") :
              /\ Events[p - 1] = <<"llm">>
              /\ Len(Events) = p + 2
              /\ Events[p + 1] = <<"save_session">>
              /\ Events[p + 2] = <<"return", Events[p][2]>>
              /\ agent[1].returned = <<Events[p][2]>>
              /\ history[Len(history)].content = Events[p][2]
              /\ saved_entries[session_id] = <<Entries>>
        /\ \A p \in EventsOf("save_session") :
              Events[p - 1][1] = "add_assistant_response"
        /\ EventsOf("add_assistant_response") = {}
              => /\ saved_entries[session_id] = <<>>
                 /\ session_files[session_id] = <<>>
        /\ agent[1].returned = <<NotCompleted>>
              => /\ EventsOf("add_assistant_response") = {}
                 /\ EventsOf("save_session") = {}
                 /\ Cardinality(EventsOf("iteration"))
                        = agent[1].max_iterations
                 /\ ret = NotCompleted

\* run returned a final answer after a turn in which the tool was executed
\* twice
C29_Witness ==
    /\ agent # <<>>
    /\ agent[1].returned # <<>>
    /\ agent[1].returned # <<NotCompleted>>
    /\ \E p \in EventsOf("iteration") :
          Cardinality({q \in TurnOf(p) : Events[q][1] = "tool"}) = 2
    /\ session_files[session_id] # <<>>

\* run gave up after max_iterations turns, one of them with a tool
\* execution
C29_WitnessExhausted ==
    /\ agent # <<>>
    /\ agent[1].returned = <<NotCompleted>>
    /\ agent[1].max_iterations = MaxIterations
    /\ EventsOf("add_tool_execution") # {}

\* a query with no filter and k >= 1 on a store that holds documents
UnfilteredQuery ==
    /\ call.op = "RAGSystem.query"
    /\ call.filter = <<>>
    /\ call.k >= 1
    /\ Len(vector_store.documents) >= 1

\* every retrieved document has the score 0
AllScoresZero ==
    \A i \in 1..Len(ret.relevant_documents) :
        FEq(ret.relevant_documents[i].score, Float(0))

\* C30 - retrieval has no relevance threshold: on a store of n >= 1
\* documents, with no filter and k >= 1, query does not return the
\* no-information answer; it returns min(k, n) relevant documents, also
\* when every score is 0, and then the confidence is 0.0 and an answer is
\* generated all the same (by the generation capability when there is
\* one, from the template otherwise)
C30_NoRelevanceThreshold ==
    UnfilteredQuery =>
        /\ ret.answer # NoInformationAnswer
        /\ Len(ret.relevant_documents)
               = Min(call.k, Len(vector_store.documents))
        /\ ret.context # <<>>
        /\ AllScoresZero =>
              /\ ret.confidence = Float(0)
              /\ IF llm # <<>> THEN Len(invoked) = 1
                 ELSE invoked = <<>> /\ ret.answer # <<>>

\* two documents retrieved for a question without a Latin letter, each
\* with the score 0
C30_Witness ==
    /\ UnfilteredQuery
    /\ call.question = <<"?">>
    /\ Len(vector_store.documents) = 2
    /\ Len(ret.relevant_documents) = 2
    /\ AllScoresZero
    /\ ret.confidence = Float(0)

====
